---------------------------- MODULE Spec2Model ----------------------------
(***************************************************************************)
(* Verification model of muffin-simple-arbitrage: the multi-tier pool      *)
(* simulator (integer and float variants), its allocation solver and step  *)
(* executor, and the profit-maximizing search of evaluate.py.              *)
(*                                                                         *)
(* Word width.  The program computes on Python integers with Q72 prices,   *)
(* 1e10 fee denominators and 128-bit tick factors.  The model checker's    *)
(* integers are 32 bits wide, so the model runs the same formulas, with    *)
(* the same order of operations and the same rounding directions, at a     *)
(* reduced precision: NFRAC fractional bits for a sqrt price, E5 for the   *)
(* sqrt-gamma denominator, 15-bit tick factors, a tick step of 2% and a    *)
(* tick range of [-MAX_TICK, MAX_TICK].  These are bounds of the model.    *)
(***************************************************************************)
EXTENDS Integers, Sequences, FiniteSets, TLC

(***************************************************************************)
(* Bounds of the model                                                     *)
(***************************************************************************)
NFRAC == 9

E5 == 100

MAX_TICK == 60

(***************************************************************************)
(* Program constants                                                       *)
(***************************************************************************)
SWAP_AMOUNT_TOLERANCE == 100

MAX_STEP_COUNT == 100

MIN_TICK == -MAX_TICK

E10 == E5 * E5

Q72 == 2^NFRAC

(***************************************************************************)
(* basic_math: floor and ceiling division on integers (Python's // floors) *)
(***************************************************************************)
floor_div(a, b) == a \div b

ceil_div(a, b) == -((-a) \div b)

abs(a) == IF a < 0 THEN -a ELSE a

div(a, b, round_up) == IF round_up THEN ceil_div(a, b) ELSE floor_div(a, b)

(***************************************************************************)
(* tick_math: sqrt(base^tick) in fixed point by bit decomposition of       *)
(* |tick| against precomputed factors sqrt(base^(-2^k)), inverted for      *)
(* tick >= 0 and shrunk to NFRAC fractional bits rounding up.              *)
(***************************************************************************)
TickFactors == <<32445, 32125, 31495, 30272, 27967, 23869, 17387>>

RECURSIVE tick_accumulate(_, _, _)
tick_accumulate(x, k, r) ==
    IF k > Len(TickFactors) THEN r
    ELSE tick_accumulate(x, k + 1,
            IF (x \div 2^(k - 1)) % 2 = 1
            THEN (r * TickFactors[k]) \div 2^15
            ELSE r)

tick_to_sqrt_price(tick) ==
    LET r0 == tick_accumulate(abs(tick), 1, 2^15)
        r  == IF tick >= 0 THEN (2^30 - 1) \div r0 ELSE r0
        nshift == 15 - NFRAC
    IN  (r \div 2^nshift) + (IF r % 2^nshift > 0 THEN 1 ELSE 0)

(***************************************************************************)
(* pool_math                                                               *)
(***************************************************************************)
calc_amt0_rounding_out_up(sqrt_p0, sqrt_p1, liquidity) ==
    LET price_up == sqrt_p1 > sqrt_p0
        hi == IF price_up THEN sqrt_p1 ELSE sqrt_p0
        lo == IF price_up THEN sqrt_p0 ELSE sqrt_p1
        amt0 == div(liquidity * (hi - lo) * Q72, hi * lo, price_up)
    IN  IF price_up THEN -amt0 ELSE amt0

calc_amt0_from_sqrt_p(sqrt_p0, sqrt_p1, liquidity) ==
    LET price_up == sqrt_p1 > sqrt_p0
        hi == IF price_up THEN sqrt_p1 ELSE sqrt_p0
        lo == IF price_up THEN sqrt_p0 ELSE sqrt_p1
        amt0 == div(liquidity * (hi - lo) * Q72, hi * lo, ~price_up)
    IN  IF price_up THEN -amt0 ELSE amt0

calc_amt1_from_sqrt_p(sqrt_p0, sqrt_p1, liquidity) ==
    LET price_down == sqrt_p1 < sqrt_p0
        lo == IF price_down THEN sqrt_p1 ELSE sqrt_p0
        hi == IF price_down THEN sqrt_p0 ELSE sqrt_p1
        amt1 == div(liquidity * (hi - lo), Q72, ~price_down)
    IN  IF price_down THEN -amt1 ELSE amt1

calc_sqrt_p_from_amt(is_token0, sqrt_p0, liquidity, amt) ==
    IF is_token0
    THEN IF abs(amt) * sqrt_p0 >= 2^30
         THEN ceil_div(liquidity * Q72, floor_div(liquidity * Q72, sqrt_p0) + amt)
         ELSE ceil_div(liquidity * sqrt_p0 * Q72, (liquidity * Q72) + (amt * sqrt_p0))
    ELSE IF amt >= 0
         THEN sqrt_p0 + floor_div(amt * Q72, liquidity)
         ELSE sqrt_p0 - ceil_div(abs(amt) * Q72, liquidity)

(***************************************************************************)
(* float/math_utils: the float64 variant of the same formulas.  A float    *)
(* amount is modelled by an integer number of base units; a real division  *)
(* is modelled by the floor of the quotient.                               *)
(***************************************************************************)
real_div(a, b) == a \div b

calc_amt0_from_sqrt_p_f(sqrt_p0, sqrt_p1, liquidity) ==
    real_div(liquidity * (sqrt_p0 - sqrt_p1) * Q72, sqrt_p0 * sqrt_p1)

calc_amt1_from_sqrt_p_f(sqrt_p0, sqrt_p1, liquidity) ==
    real_div(liquidity * (sqrt_p1 - sqrt_p0), Q72)

calc_sqrt_p_from_amt_f(is_token0, sqrt_p0, liquidity, amt) ==
    IF is_token0
    THEN real_div(liquidity * sqrt_p0 * Q72, (liquidity * Q72) + (amt * sqrt_p0))
    ELSE sqrt_p0 + real_div(amt * Q72, liquidity)

(***************************************************************************)
(* The variant v ("int" or "float") selects the arithmetic                 *)
(***************************************************************************)
amt0_from_sqrt_p(v, sqrt_p0, sqrt_p1, liquidity) ==
    IF v = "int" THEN calc_amt0_from_sqrt_p(sqrt_p0, sqrt_p1, liquidity)
    ELSE calc_amt0_from_sqrt_p_f(sqrt_p0, sqrt_p1, liquidity)

amt1_from_sqrt_p(v, sqrt_p0, sqrt_p1, liquidity) ==
    IF v = "int" THEN calc_amt1_from_sqrt_p(sqrt_p0, sqrt_p1, liquidity)
    ELSE calc_amt1_from_sqrt_p_f(sqrt_p0, sqrt_p1, liquidity)

sqrt_p_from_amt(v, is_token0, sqrt_p0, liquidity, amt) ==
    IF v = "int" THEN calc_sqrt_p_from_amt(is_token0, sqrt_p0, liquidity, amt)
    ELSE calc_sqrt_p_from_amt_f(is_token0, sqrt_p0, liquidity, amt)

quot(v, a, b, round_up) == IF v = "int" THEN div(a, b, round_up) ELSE real_div(a, b)

(***************************************************************************)
(* Arrays are sequences indexed 1..size                                    *)
(***************************************************************************)
RECURSIVE SumMasked(_, _, _)
SumMasked(arr, mask, i) ==
    IF i > Len(arr) THEN 0
    ELSE (IF mask[i] THEN arr[i] ELSE 0) + SumMasked(arr, mask, i + 1)

SumAll(arr) == SumMasked(arr, [i \in 1..Len(arr) |-> TRUE], 1)

AnyTrue(mask) == \E i \in 1..Len(mask) : mask[i]

Zeros(n) == [i \in 1..n |-> 0]

(***************************************************************************)
(* swap_math: the allocation solver.  One iteration of the                 *)
(* exclude-and-re-solve loop, on the state st = [mask, amts, iters, done,  *)
(* err].  round_up is the rounding of the quotient (floor for exact-in,    *)
(* ceiling for exact-out); err is a division by a zero lambda_num.         *)
(***************************************************************************)
SignOk(is_in, a) == IF is_in THEN a >= 0 ELSE a <= 0

reject_none(is_in, mask, amts) == mask

reject_wrong_sign(is_in, mask, amts) ==
    [i \in 1..Len(mask) |-> mask[i] /\ SignOk(is_in, amts[i])]

tier_amounts_check_keep(is_in, st, amts) ==
    IF \A i \in 1..Len(amts) : st.mask[i] => SignOk(is_in, amts[i])
    THEN [mask |-> st.mask, amts |-> amts,
          iters |-> st.iters + 1, done |-> TRUE, err |-> FALSE]
    ELSE [mask |-> reject_wrong_sign(is_in, st.mask, amts),
          amts |-> amts,
          iters |-> st.iters + 1, done |-> FALSE, err |-> FALSE]

tier_amounts_check(is_in, st, amts) ==
    IF \A i \in 1..Len(amts) : st.mask[i] => SignOk(is_in, amts[i])
    THEN [mask |-> st.mask,
          amts |-> [i \in 1..Len(amts) |-> IF st.mask[i] THEN amts[i] ELSE 0],
          iters |-> st.iters + 1, done |-> TRUE, err |-> FALSE]
    ELSE [mask |-> reject_wrong_sign(is_in, st.mask, amts),
          amts |-> amts,
          iters |-> st.iters + 1, done |-> FALSE, err |-> FALSE]

(* the shares rounded away from the pool: up for inputs, down for outputs *)
tier_amounts_solve_away(v, is_in, lsg, res, st, lambda_num, lambda_denom) ==
    IF AnyTrue(st.mask) /\ lambda_num = 0
    THEN [st EXCEPT !.err = TRUE, !.iters = @ + 1]
    ELSE tier_amounts_check(is_in, st,
            [i \in 1..Len(lsg) |->
                IF st.mask[i]
                THEN quot(v, lsg[i] * lambda_denom, lambda_num, is_in) - res[i]
                ELSE st.amts[i]])

tier_amounts_solve(v, is_in, lsg, res, st, lambda_num, lambda_denom) ==
    IF AnyTrue(st.mask) /\ lambda_num = 0
    THEN [st EXCEPT !.err = TRUE, !.iters = @ + 1]
    ELSE tier_amounts_check(is_in, st,
            [i \in 1..Len(lsg) |->
                IF st.mask[i]
                THEN quot(v, lsg[i] * lambda_denom, lambda_num, ~is_in) - res[i]
                ELSE st.amts[i]])

tier_amounts_iter(v, is_in, lsg, res, amount, st) ==
    tier_amounts_solve(v, is_in, lsg, res, st,
        SumMasked(lsg, st.mask, 1), SumMasked(res, st.mask, 1) + amount)

RECURSIVE tier_amounts_loop(_, _, _, _, _, _)
tier_amounts_loop(v, is_in, lsg, res, amount, st) ==
    IF st.done \/ st.err THEN st
    ELSE tier_amounts_loop(v, is_in, lsg, res, amount,
            tier_amounts_iter(v, is_in, lsg, res, amount, st))

tier_amounts_start(tier_choices) ==
    [mask |-> tier_choices, amts |-> Zeros(Len(tier_choices)),
     iters |-> 0, done |-> FALSE, err |-> FALSE]

tier_lsg(v, is_in, sqrt_gammas, liquiditys) ==
    [i \in 1..Len(liquiditys) |-> quot(v, liquiditys[i] * E5, sqrt_gammas[i], is_in)]

tier_res_in(v, is_token0, sqrt_gammas, sqrt_prices, liquiditys) ==
    [i \in 1..Len(liquiditys) |->
        IF is_token0
        THEN quot(v, liquiditys[i] * Q72 * E10, sqrt_prices[i] * sqrt_gammas[i]^2, TRUE)
        ELSE quot(v, liquiditys[i] * sqrt_prices[i],
                     quot(v, Q72 * sqrt_gammas[i]^2, E10, FALSE), TRUE)]

tier_res_out(v, is_token0, sqrt_prices, liquiditys) ==
    [i \in 1..Len(liquiditys) |->
        IF is_token0
        THEN quot(v, liquiditys[i] * Q72, sqrt_prices[i], FALSE)
        ELSE quot(v, liquiditys[i] * sqrt_prices[i], Q72, FALSE)]

calc_tier_amounts_in(v, is_token0, amount, tier_choices, sqrt_gammas, sqrt_prices, liquiditys) ==
    tier_amounts_loop(v, TRUE,
        tier_lsg(v, TRUE, sqrt_gammas, liquiditys),
        tier_res_in(v, is_token0, sqrt_gammas, sqrt_prices, liquiditys),
        amount, tier_amounts_start(tier_choices))

calc_tier_amounts_out(v, is_token0, amount, tier_choices, sqrt_gammas, sqrt_prices, liquiditys) ==
    tier_amounts_loop(v, FALSE,
        tier_lsg(v, FALSE, sqrt_gammas, liquiditys),
        tier_res_out(v, is_token0, sqrt_prices, liquiditys),
        amount, tier_amounts_start(tier_choices))

(***************************************************************************)
(* swap_math: the swap-step executor of one tier.  amt_a is the amount of  *)
(* the token `amount` refers to, amt_b the amount of the other token.      *)
(***************************************************************************)
StepResult(allowed, is_cross, amt_a, amt_b, sqrt_p_new, fee_amt) ==
    [allowed |-> allowed, is_cross |-> is_cross, amt_a |-> amt_a,
     amt_b |-> amt_b, sqrt_p_new |-> sqrt_p_new, fee_amt |-> fee_amt]

step_never_reject(amt_in_excl_fee, sqrt_p_new, sqrt_p_tick, sqrt_p, r) == r

step_reject(amt_in_excl_fee, sqrt_p_new, sqrt_p_tick, sqrt_p, r) ==
    IF amt_in_excl_fee = 0 /\ sqrt_p_new # sqrt_p_tick
    THEN StepResult(FALSE, FALSE, 0, 0, sqrt_p, 0)
    ELSE r

step_amt_same_token(v, is_token0, sqrt_p, sqrt_p_new, liquidity) ==
    IF is_token0
    THEN amt0_from_sqrt_p(v, sqrt_p, sqrt_p_new, liquidity)
    ELSE amt1_from_sqrt_p(v, sqrt_p, sqrt_p_new, liquidity)

step_amt_other(v, is_token0, sqrt_p, sqrt_p_new, liquidity) ==
    IF is_token0
    THEN amt1_from_sqrt_p(v, sqrt_p, sqrt_p_new, liquidity)
    ELSE amt0_from_sqrt_p(v, sqrt_p, sqrt_p_new, liquidity)

step_in_result(v, is_token0, is_cross, amt_a, amt_in_excl_fee, sqrt_p, sqrt_p_new, liquidity, sqrt_p_tick) ==
    step_reject(amt_in_excl_fee, sqrt_p_new, sqrt_p_tick, sqrt_p,
        StepResult(TRUE, is_cross, amt_a,
            step_amt_other(v, is_token0, sqrt_p, sqrt_p_new, liquidity),
            sqrt_p_new, amt_a - amt_in_excl_fee))

step_exact_in_unclamped(v, is_token0, amount, gamma, sqrt_p, liquidity, sqrt_p_tick, amt_tick, amt_in_excl_fee) ==
    step_in_result(v, is_token0, amt_in_excl_fee >= amt_tick, amount, amt_in_excl_fee, sqrt_p,
        sqrt_p_from_amt(v, is_token0, sqrt_p, liquidity, amt_in_excl_fee),
        liquidity, sqrt_p_tick)

step_exact_in(v, is_token0, amount, gamma, sqrt_p, liquidity, sqrt_p_tick, amt_tick, amt_in_excl_fee) ==
    IF amt_in_excl_fee >= amt_tick
    THEN step_in_result(v, is_token0, TRUE, quot(v, amt_tick * E10, gamma, TRUE),
            amt_tick, sqrt_p, sqrt_p_tick, liquidity, sqrt_p_tick)
    ELSE step_in_result(v, is_token0, FALSE, amount, amt_in_excl_fee, sqrt_p,
            sqrt_p_from_amt(v, is_token0, sqrt_p, liquidity, amt_in_excl_fee),
            liquidity, sqrt_p_tick)

step_out_fee(v, is_cross, amt_a, gamma, sqrt_p, sqrt_p_new, sqrt_p_tick, amt_in_excl_fee) ==
    step_reject(amt_in_excl_fee, sqrt_p_new, sqrt_p_tick, sqrt_p,
        StepResult(TRUE, is_cross, amt_a,
            quot(v, amt_in_excl_fee * E10, gamma, TRUE),
            sqrt_p_new, quot(v, amt_in_excl_fee * E10, gamma, TRUE) - amt_in_excl_fee))

step_out_result(v, is_token0, is_cross, amt_a, gamma, sqrt_p, sqrt_p_new, liquidity, sqrt_p_tick) ==
    step_out_fee(v, is_cross, amt_a, gamma, sqrt_p, sqrt_p_new, sqrt_p_tick,
        step_amt_other(v, is_token0, sqrt_p, sqrt_p_new, liquidity))

step_exact_out_unclamped(v, is_token0, amount, gamma, sqrt_p, liquidity, sqrt_p_tick, amt_tick) ==
    step_out_result(v, is_token0, FALSE, amount, gamma, sqrt_p,
        sqrt_p_from_amt(v, is_token0, sqrt_p, liquidity, amount),
        liquidity, sqrt_p_tick)

step_exact_out(v, is_token0, amount, gamma, sqrt_p, liquidity, sqrt_p_tick, amt_tick) ==
    IF amount > amt_tick
    THEN step_out_result(v, is_token0, FALSE, amount, gamma, sqrt_p,
            sqrt_p_from_amt(v, is_token0, sqrt_p, liquidity, amount),
            liquidity, sqrt_p_tick)
    ELSE step_out_result(v, is_token0, TRUE, amt_tick, gamma, sqrt_p, sqrt_p_tick,
            liquidity, sqrt_p_tick)

step_from_tick(v, is_token0, is_exact_in, amount, gamma, sqrt_p, liquidity, sqrt_p_tick, amt_tick) ==
    IF is_exact_in
    THEN step_exact_in(v, is_token0, amount, gamma, sqrt_p, liquidity, sqrt_p_tick,
            amt_tick, quot(v, amount * gamma, E10, FALSE))
    ELSE step_exact_out(v, is_token0, amount, gamma, sqrt_p, liquidity, sqrt_p_tick,
            amt_tick)

step_to_tick(v, is_token0, is_exact_in, amount, gamma, sqrt_p, liquidity, sqrt_p_tick) ==
    step_from_tick(v, is_token0, is_exact_in, amount, gamma, sqrt_p, liquidity, sqrt_p_tick,
        IF is_token0
        THEN amt0_from_sqrt_p(v, sqrt_p, sqrt_p_tick, liquidity)
        ELSE amt1_from_sqrt_p(v, sqrt_p, sqrt_p_tick, liquidity))

compute_step(v, is_token0, is_exact_in, amount, sqrt_gamma, sqrt_p, liquidity, next_tick) ==
    step_to_tick(v, is_token0, is_exact_in, amount, sqrt_gamma^2, sqrt_p, liquidity,
        tick_to_sqrt_price(next_tick))

(***************************************************************************)
(* On-chain tick tables handed to the pool through the tick accessor       *)
(* (int: get_tick_data, float: the ticks dict).  A table is the set of     *)
(* initialised ticks with the liquidity each adds when crossed upwards.    *)
(***************************************************************************)
DenseTicks == [t \in MIN_TICK..MAX_TICK |-> 0]

SparseTicks == [t \in {MIN_TICK, -20, -5, 5, 20, MAX_TICK} |->
                  CASE t = -20 -> 60
                    [] t = -5 -> 100
                    [] t = 5 -> -100
                    [] t = 20 -> -60
                    [] OTHER -> 0]

WideTicks == [t \in {MIN_TICK, MAX_TICK} |-> 0]

TickTable(name) ==
    CASE name = "dense" -> DenseTicks
      [] name = "sparse" -> SparseTicks
      [] OTHER -> WideTicks

SetMax(S) == CHOOSE m \in S : \A u \in S : u <= m

SetMin(S) == CHOOSE m \in S : \A u \in S : m <= u

get_tick_data(table, tick) ==
    LET T == DOMAIN TickTable(table)
        below == {u \in T : u < tick}
        above == {u \in T : u > tick}
    IN  [liquidity_delta |-> TickTable(table)[tick],
         next_below |-> IF below = {} THEN MIN_TICK ELSE SetMax(below),
         next_above |-> IF above = {} THEN MAX_TICK ELSE SetMin(above)]

(***************************************************************************)
(* Pools as fetched: per tier liquidity, sqrt price, sqrt gamma, next      *)
(* ticks, and the tier's tick table.                                       *)
(***************************************************************************)
PoolConfigs ==
    { [liquiditys |-> <<200>>,
       sqrt_prices |-> <<tick_to_sqrt_price(MAX_TICK - 2)>>,
       sqrt_gammas |-> <<E5 - 1>>,
       next_ticks_below |-> <<MAX_TICK - 3>>,
       next_ticks_above |-> <<MAX_TICK - 1>>,
       tables |-> <<"dense">>],
      [liquiditys |-> <<200, 120>>,
       sqrt_prices |-> <<tick_to_sqrt_price(0) + 1, tick_to_sqrt_price(2)>>,
       sqrt_gammas |-> <<E5 - 1, E5>>,
       next_ticks_below |-> <<-5, MIN_TICK>>,
       next_ticks_above |-> <<5, MAX_TICK>>,
       tables |-> <<"sparse", "wide">>],
      [liquiditys |-> <<120, 200>>,
       sqrt_prices |-> <<tick_to_sqrt_price(-1), tick_to_sqrt_price(3)>>,
       sqrt_gammas |-> <<E5 - 2, E5 - 1>>,
       next_ticks_below |-> <<MIN_TICK, -5>>,
       next_ticks_above |-> <<MAX_TICK, 5>>,
       tables |-> <<"wide", "sparse">>] }

Attrs == {"liquiditys", "sqrt_prices", "next_ticks_below", "next_ticks_above"}

AmountsDesired == {-5000, -300, -130, -40, 0, 40, 130, 300, 5000}

TierChoices(n) == [1..n -> BOOLEAN]

(***************************************************************************)
(* Python's int.  The amounts evaluate_arb and maximize work on (wei,      *)
(* reserves, squares of amounts) do not fit a machine word; they are kept  *)
(* exactly, as a sign and the digits of the magnitude in base BASE, least  *)
(* significant digit first, without leading zeros (0 is no digit at all).  *)
(***************************************************************************)
BASE == 10000

RECURSIVE mag_norm(_)
mag_norm(d) ==
    IF d = <<>> THEN <<>>
    ELSE IF d[Len(d)] = 0 THEN mag_norm(SubSeq(d, 1, Len(d) - 1))
    ELSE d

RECURSIVE mag_of(_)
mag_of(n) == IF n = 0 THEN <<>> ELSE <<n % BASE>> \o mag_of(n \div BASE)

mag_digit(d, i) == IF i <= Len(d) THEN d[i] ELSE 0

RECURSIVE mag_add_from(_, _, _, _)
mag_add_from(a, b, i, carry) ==
    IF i > Len(a) /\ i > Len(b)
    THEN IF carry = 0 THEN <<>> ELSE <<carry>>
    ELSE <<(mag_digit(a, i) + mag_digit(b, i) + carry) % BASE>>
         \o mag_add_from(a, b, i + 1, (mag_digit(a, i) + mag_digit(b, i) + carry) \div BASE)

mag_add(a, b) == mag_add_from(a, b, 1, 0)

RECURSIVE mag_sub_from(_, _, _, _)
mag_sub_from(a, b, i, borrow) ==
    IF i > Len(a) THEN <<>>
    ELSE <<(a[i] - mag_digit(b, i) - borrow) % BASE>>
         \o mag_sub_from(a, b, i + 1, IF a[i] - mag_digit(b, i) - borrow < 0 THEN 1 ELSE 0)

(* a - b for a >= b *)
mag_sub(a, b) == mag_norm(mag_sub_from(a, b, 1, 0))

RECURSIVE mag_cmp_from(_, _, _)
mag_cmp_from(a, b, i) ==
    IF i = 0 THEN 0
    ELSE IF a[i] < b[i] THEN -1
    ELSE IF a[i] > b[i] THEN 1
    ELSE mag_cmp_from(a, b, i - 1)

(* -1, 0, 1 as a < b, a = b, a > b *)
mag_cmp(a, b) ==
    IF Len(a) < Len(b) THEN -1
    ELSE IF Len(a) > Len(b) THEN 1
    ELSE mag_cmp_from(a, b, Len(a))

RECURSIVE mag_mul_digit_from(_, _, _, _)
mag_mul_digit_from(a, m, i, carry) ==
    IF i > Len(a)
    THEN IF carry = 0 THEN <<>> ELSE <<carry>>
    ELSE <<(a[i] * m + carry) % BASE>>
         \o mag_mul_digit_from(a, m, i + 1, (a[i] * m + carry) \div BASE)

mag_mul_digit(a, m) == IF m = 0 THEN <<>> ELSE mag_mul_digit_from(a, m, 1, 0)

(* a times the digits j and below of b, added to acc shifted over them *)
RECURSIVE mag_mul_from(_, _, _, _)
mag_mul_from(a, b, j, acc) ==
    IF j = 0 THEN acc
    ELSE IF acc = <<>> THEN mag_mul_from(a, b, j - 1, mag_mul_digit(a, b[j]))
    ELSE mag_mul_from(a, b, j - 1, mag_add(mag_mul_digit(a, b[j]), <<0>> \o acc))

mag_mul(a, b) == mag_mul_from(a, b, Len(b), <<>>)

(* the largest q in lo..hi-1 with b * q <= r, given b * lo <= r < b * hi *)
RECURSIVE mag_quot_digit(_, _, _, _)
mag_quot_digit(r, b, lo, hi) ==
    IF hi - lo <= 1 THEN lo
    ELSE IF mag_cmp(mag_mul_digit(b, (lo + hi) \div 2), r) <= 0
    THEN mag_quot_digit(r, b, (lo + hi) \div 2, hi)
    ELSE mag_quot_digit(r, b, lo, (lo + hi) \div 2)

mag_divmod_take(r, b, q, qs) ==
    [q |-> <<q>> \o qs, r |-> mag_sub(r, mag_mul_digit(b, q))]

mag_divmod_digit(r, b, qs) ==
    mag_divmod_take(r, b, mag_quot_digit(r, b, 0, BASE), qs)

mag_divmod_next(a, b, i, up) ==
    mag_divmod_digit(mag_norm(<<a[i]>> \o up.r), b, up.q)

(* long division, from the most significant digit of a down to digit i *)
RECURSIVE mag_divmod_from(_, _, _)
mag_divmod_from(a, b, i) ==
    IF i > Len(a) THEN [q |-> <<>>, r |-> <<>>]
    ELSE mag_divmod_next(a, b, i, mag_divmod_from(a, b, i + 1))

mag_divmod_pack(qr) == [q |-> mag_norm(qr.q), r |-> qr.r]

(* quotient and remainder of a by b > 0 *)
mag_divmod(a, b) == mag_divmod_pack(mag_divmod_from(a, b, 1))

(***************************************************************************)
(* Signed values: [neg, mag], with 0 never negative                        *)
(***************************************************************************)
int_make(neg, mag) == [neg |-> neg /\ mag # <<>>, mag |-> mag]

int_of(n) == int_make(n < 0, mag_of(IF n < 0 THEN -n ELSE n))

int_neg(x) == int_make(~x.neg, x.mag)

int_add(x, y) ==
    IF x.neg = y.neg THEN int_make(x.neg, mag_add(x.mag, y.mag))
    ELSE IF mag_cmp(x.mag, y.mag) >= 0 THEN int_make(x.neg, mag_sub(x.mag, y.mag))
    ELSE int_make(y.neg, mag_sub(y.mag, x.mag))

int_sub(x, y) == int_add(x, int_neg(y))

int_mul(x, y) == int_make(x.neg # y.neg, mag_mul(x.mag, y.mag))

int_cmp(x, y) ==
    IF x.neg /\ ~y.neg THEN -1
    ELSE IF ~x.neg /\ y.neg THEN 1
    ELSE IF x.neg THEN mag_cmp(y.mag, x.mag)
    ELSE mag_cmp(x.mag, y.mag)

int_le(x, y) == int_cmp(x, y) <= 0

int_lt(x, y) == int_cmp(x, y) < 0

int_max(x, y) == IF int_lt(x, y) THEN y ELSE x

int_floor_pack(neg, qr) ==
    IF neg /\ qr.r # <<>> THEN int_make(TRUE, mag_add(qr.q, <<1>>))
    ELSE int_make(neg, qr.q)

(* x // y of Python, y # 0: the quotient rounded towards minus infinity *)
int_floordiv(x, y) == int_floor_pack(x.neg # y.neg, mag_divmod(x.mag, y.mag))

RECURSIVE int_pow(_, _)
int_pow(x, k) == IF k = 0 THEN int_of(1) ELSE int_mul(x, int_pow(x, k - 1))

RECURSIVE mag_value(_, _)
mag_value(d, i) == IF i > Len(d) THEN 0 ELSE d[i] + BASE * mag_value(d, i + 1)

(* the value as a machine integer, for the values that fit *)
int_value(x) == IF x.neg THEN -mag_value(x.mag, 1) ELSE mag_value(x.mag, 1)

(***************************************************************************)
(* tick_math at the program's own precision: 128-bit factors of            *)
(* sqrt(1.0001^(-2^k)), Q72 sqrt prices and ticks in [-776363, 776363],    *)
(* computed on the arbitrary-precision integers above.  A constant of the  *)
(* program is written by its base-10000 digits.                            *)
(***************************************************************************)
TICK_NFRAC == 72

TICK_MAX == 776363

TICK_MIN == -TICK_MAX

(* a / m for a digit m, from the most significant digit down *)
RECURSIVE mag_short_div(_, _, _, _, _)
mag_short_div(a, m, i, q, rem) ==
    IF i = 0 THEN mag_norm(q)
    ELSE mag_short_div(a, m, i - 1, <<(rem * BASE + a[i]) \div m>> \o q, (rem * BASE + a[i]) % m)

(* a >> k *)
RECURSIVE mag_shr(_, _)
mag_shr(a, k) ==
    IF k = 0 \/ Len(a) = 0 THEN a
    ELSE IF k >= 13 THEN mag_shr(mag_short_div(a, 8192, Len(a), <<>>, 0), k - 13)
    ELSE mag_short_div(a, 2^k, Len(a), <<>>, 0)

(* a << k *)
RECURSIVE mag_shl(_, _)
mag_shl(a, k) ==
    IF k = 0 \/ Len(a) = 0 THEN a
    ELSE IF k >= 13 THEN mag_shl(mag_mul_digit(a, 8192), k - 13)
    ELSE mag_mul_digit(a, 2^k)

(* x << k *)
int_shl(x, k) == int_make(x.neg, mag_shl(x.mag, k))

int_shr_floor(x, k, q) ==
    IF x.neg /\ mag_shl(q, k) # x.mag THEN int_make(TRUE, mag_add(q, <<1>>))
    ELSE int_make(x.neg, q)

(* x >> k, which floors *)
int_shr(x, k) == int_shr_floor(x, k, mag_shr(x.mag, k))

(* x >= 1 << k, for x >= 0 *)
int_has_bit(x, k) == mag_shr(x.mag, k) # <<>>

(* 2**256 - 1 *)
UINT256_MAX == int_make(FALSE, <<9935, 2963, 9131, 4007, 5758, 394, 564, 6564, 9846, 3269, 785, 6879, 5008, 7098, 4235, 6195, 3731, 892, 5792, 11>>)

(* the factor of bit k-1 of |tick| *)
TickFactors128 == <<
    <<9313, 7514, 320, 6517, 5781, 9635, 8544, 5407, 2653, 340>>,
    <<2778, 8678, 8142, 6174, 8432, 7904, 6729, 4208, 2483, 340>>,
    <<1260, 1518, 7160, 982, 5192, 3240, 4664, 2065, 2143, 340>>,
    <<4304, 7968, 1018, 1512, 3117, 3236, 5602, 8799, 1462, 340>>,
    <<1444, 5946, 6791, 3991, 2359, 1468, 8231, 6348, 102, 340>>,
    <<2016, 7550, 1043, 7401, 9715, 4036, 345, 7764, 7383, 339>>,
    <<7025, 4399, 4545, 4227, 703, 5557, 3219, 5800, 1952, 339>>,
    <<5971, 1488, 9884, 5679, 5680, 8346, 601, 2210, 1116, 338>>,
    <<7700, 7897, 7897, 9805, 2358, 2230, 4790, 2499, 9547, 335>>,
    <<7300, 5981, 785, 2139, 2717, 2471, 8379, 2113, 6821, 331>>,
    <<8739, 6061, 2681, 1250, 8821, 232, 4853, 3668, 2992, 323>>,
    <<3929, 8, 9426, 7243, 4869, 9899, 7032, 1637, 1637, 307>>,
    <<5045, 8759, 2160, 9269, 6299, 2201, 6896, 362, 2684, 277>>,
    <<1333, 8539, 1274, 6027, 4712, 6219, 442, 5394, 9234, 225>>,
    <<5943, 3820, 825, 242, 2733, 9977, 4966, 1408, 9972, 149>>,
    <<7926, 6651, 6084, 6233, 2271, 7756, 6024, 113, 1191, 66>>,
    <<8313, 7813, 1904, 974, 3029, 2975, 1809, 7606, 8473, 12>>,
    <<4020, 2997, 6840, 6253, 7274, 661, 817, 5326, 4850>>,
    <<4168, 421, 4353, 653, 2157, 9065, 5978, 9141, 6>>,
    <<642, 9618, 9558, 9654, 8267, 8804, 1404>> >>

(* a factor that is never applied *)
tick_factor_skipped(x, k, r) == r

(* one `if x & bit > 0: r = (r * factor) >> 128` of _tick_to_sqrt_p *)
tick_factor(x, k, r) ==
    IF (x \div 2^(k - 1)) % 2 = 1
    THEN int_shr(int_mul(r, int_make(FALSE, TickFactors128[k])), 128)
    ELSE r

(* one digit of the quotient (2**256 - 1) // r, from the most significant down *)
tick_invert_take(dv, r, rem, d) ==
    [i |-> dv.i - 1, q |-> <<d>> \o dv.q, rem |-> mag_sub(rem, mag_mul_digit(r.mag, d))]

tick_invert_with(dv, r, rem) == tick_invert_take(dv, r, rem, mag_quot_digit(rem, r.mag, 0, BASE))

tick_invert_digit(dv, r) == tick_invert_with(dv, r, mag_norm(<<UINT256_MAX.mag[dv.i]>> \o dv.rem))

tick_round_up(r, q, nshift) == IF int_lt(int_shl(q, nshift), r) THEN int_add(q, int_of(1)) ELSE q

tick_shrunk(r, nshift) == tick_round_up(r, int_shr(r, nshift), nshift)

(* the end of _tick_to_sqrt_p: shrink to Q72 rounding up *)
tick_shrink(r) == tick_shrunk(r, 128 - TICK_NFRAC)

(* the most significant bit of sqrt_p, by halving the window from 64 bits *)
RECURSIVE most_significant_bit(_, _, _)
most_significant_bit(xc, msb, s) ==
    IF s = 0 THEN msb
    ELSE IF int_has_bit(xc, s) THEN most_significant_bit(int_shr(xc, s), msb + s, s \div 2)
    ELSE most_significant_bit(xc, msb, s \div 2)

log2_bit(y, res, i) ==
    IF int_has_bit(y, 128) THEN [y |-> int_shr(y, 1), res |-> int_add(res, int_shl(int_of(1), i))]
    ELSE [y |-> y, res |-> res]

(* one iteration of the loop of _sqrt_p_to_tick over bit i of log2 *)
log2_iteration(y, res, i) == log2_bit(int_shr(int_mul(y, y), 127), res, i)

LOG2_TO_TICK == int_make(FALSE, <<7141, 2634, 6038, 8999, 3895, 2557>>)

TICK_UPPER_ERROR == int_make(FALSE, <<9137, 9989, 905, 5332, 7026, 3679, 1288, 770, 9960, 17>>)

TICK_LOWER_ERROR_FAR == int_make(FALSE, <<977, 2083, 6341, 4032, 6616, 7374, 6729, 4363, 5771, 98>>)

TICK_LOWER_ERROR_NEAR == int_make(FALSE, <<6225, 267, 3002, 3883, 8093, 7224, 259, 1000, 5278>>)

(* the upper candidate without its error margin *)
tick_upper_exact(res) == int_value(int_shr(res, 128))

tick_upper_of(res) == int_value(int_shr(int_add(res, TICK_UPPER_ERROR), 128))

tick_lower_of(res) ==
    int_value(int_shr(IF int_lt(res, int_shl(int_of(-676363), 128)) THEN int_sub(res, TICK_LOWER_ERROR_FAR)
                      ELSE IF int_lt(res, int_shl(int_of(-476363), 128)) THEN int_sub(res, TICK_LOWER_ERROR_NEAR)
                      ELSE res, 128))

(***************************************************************************)
(* evaluate.py: gen_guess and the iterator over a list, as the value the   *)
(* generator yields next and the generator after it                        *)
(***************************************************************************)
gen_guess(x0, x1) == [kind |-> "guess", pending |-> <<x0, x1>>, x1 |-> x1, xs |-> <<>>]

(* xs is the list the iterator runs over *)
iter(xs) == [kind |-> "list", pending |-> xs, x1 |-> int_of(0), xs |-> xs]

gen_has_next(g) == g.pending # <<>> \/ g.kind = "guess"

gen_value(g) ==
    IF g.pending # <<>> THEN Head(g.pending) ELSE int_mul(g.x1, int_of(2))

gen_after(g) ==
    IF g.pending # <<>> THEN [g EXCEPT !.pending = Tail(@)]
    ELSE [g EXCEPT !.x1 = int_mul(@, int_of(2))]

(***************************************************************************)
(* evaluate.py: maximize.  A call starts with the generator's first two    *)
(* values as bounds; one iteration of its loop is given the value y of fn  *)
(* at the last bound.                                                      *)
(***************************************************************************)
XATOL == 1

XRTOL_INV == 100000

FATOL == 1

maximize_call(fn, g) ==
    [fn |-> fn,
     bounds |-> <<gen_value(g), gen_value(gen_after(g))>>,
     gen |-> gen_after(gen_after(g)),
     y_prev |-> int_of(0),
     pc |-> "loop",
     result |-> <<>>]

(* the test of fn's values alone *)
maximize_end_fatol(b0, mid, y_prev, y) == int_le(int_sub(y_prev, y), int_of(FATOL))

(* (mid-bounds[0]) <= xatol or (mid-bounds[0])/mid <= xrtol or (y_prev-y) <= fatol; *)
(* the ratio is compared exactly                                            *)
maximize_end(b0, mid, y_prev, y) ==
    \/ int_le(int_sub(mid, b0), int_of(XATOL))
    \/ int_le(int_mul(int_sub(mid, b0), int_of(XRTOL_INV)), mid)
    \/ int_le(int_sub(y_prev, y), int_of(FATOL))

maximize_halve(lo, hi) == int_floordiv(int_add(lo, hi), int_of(2))

maximize_narrow(m, y, b0, mid, b2) ==
    IF int_lt(int_of(XATOL), int_sub(mid, b0)) /\ mid = int_of(0)
    THEN [m EXCEPT !.pc = "ZeroDivisionError"]
    ELSE IF maximize_end(b0, mid, m.y_prev, y)
    THEN [m EXCEPT !.pc = "returned", !.result = mid]
    ELSE maximize_call(m.fn,
            iter(<<b0, maximize_halve(b0, mid), mid, maximize_halve(mid, b2), b2>>))

maximize_iteration(m, y) ==
    IF int_lt(m.y_prev, y)
    THEN IF gen_has_next(m.gen)
         THEN [m EXCEPT !.bounds = <<m.bounds[Len(m.bounds) - 1], m.bounds[Len(m.bounds)],
                                     gen_value(m.gen)>>,
                        !.gen = gen_after(m.gen),
                        !.y_prev = y]
         ELSE [m EXCEPT !.pc = "StopIteration"]
    ELSE maximize_narrow(m, y, m.bounds[1],
            maximize_halve(m.bounds[1], m.bounds[Len(m.bounds)]), m.bounds[Len(m.bounds)])

(***************************************************************************)
(* The concave objective f(x) = -(x - 500000)^2 + C                        *)
(***************************************************************************)
parabola_peak == int_of(500000)

parabola(offset, x) ==
    int_sub(offset, int_mul(int_sub(x, parabola_peak), int_sub(x, parabola_peak)))

(***************************************************************************)
(* market.py: UniV2Pool.quote.  A quote gives the amount of the other      *)
(* token (negative: received by the caller), or the exception raised.      *)
(***************************************************************************)
quoted(val) == [err |-> "none", val |-> val]

quote_raised(e) == [err |-> e, val |-> int_of(0)]

univ2_exact_in(amt_in_with_fee, res_in, res_out) ==
    quoted(int_neg(int_floordiv(int_mul(amt_in_with_fee, res_out),
                                int_add(int_mul(res_in, int_of(1000)), amt_in_with_fee))))

univ2_exact_out(amt_out, res_in, res_out) ==
    IF int_sub(res_out, amt_out) = int_of(0)
    THEN quote_raised("ZeroDivisionError")
    ELSE quoted(int_add(int_floordiv(int_mul(int_mul(res_in, amt_out), int_of(1000)),
                                     int_mul(int_sub(res_out, amt_out), int_of(997))),
                        int_of(1)))

univ2_reserves(mkt, is_token0, amt_desired, res_in, res_out) ==
    IF int_lt(int_of(0), amt_desired)
    THEN univ2_exact_in(int_mul(amt_desired, int_of(997)), res_in, res_out)
    ELSE univ2_exact_out(int_neg(amt_desired), res_in, res_out)

univ2_quote(mkt, is_token0, amt_desired) ==
    IF is_token0 = int_lt(int_of(0), amt_desired)
    THEN univ2_reserves(mkt, is_token0, amt_desired, mkt.reserve0, mkt.reserve1)
    ELSE univ2_reserves(mkt, is_token0, amt_desired, mkt.reserve1, mkt.reserve0)

(***************************************************************************)
(* The Pool object.  Each of the four mutable attributes of the pool is a  *)
(* reference to an array object; heap holds the array objects ("orig":     *)
(* the arrays the pool was built with, "copy": the arrays quote() makes).  *)
(***************************************************************************)
VARIABLES
    variant,    \* "int" (impl/int/pool_int.py) or "float" (impl/float/pool_jitclass.py)
    cfg,        \* the fetched pool (sqrt_gammas and tick tables never change)
    heap,       \* array objects: heap[obj][attr]
    self,       \* self.<attr>: the array object each attribute refers to
    saved,      \* quote's locals _liquiditys, _sqrt_prices, ...
    pc,         \* "idle", "stepping", "swap_done", "returned", "error"
    call,       \* the running call: mode, is_token0, amount_desired, caller's tier_choices
    loc,        \* swap's locals
    pre,        \* the pool's arrays when the call was made
    err,        \* the exception that ended the call
    last,       \* what the caller keeps of its previous quote
    sv,         \* a call of the allocation solver
    mx,         \* a call of maximize
    ev,         \* a call of evaluate_arb
    fc,         \* a call of a function of the math library
    sb,         \* the block-subscription loop
    ro,         \* a pass of run_once
    tk          \* a MuffinPool's tick cache and the calls of its tick accessor

poolVars == <<variant, cfg, heap, self, saved, pc, call, loc, pre, err, last>>

Arr(attr) == heap[self[attr]][attr]

PoolArrays == [a \in Attrs |-> Arr(a)]

NoCall == [mode |-> "none", is_token0 |-> FALSE, amount_desired |-> 0, tier_choices |-> <<>>]

NoLoc == [tier_choices |-> <<>>, res_amt_a |-> 0, res_amt_b |-> 0, res_fee_amt |-> 0,
          res_step_count |-> 0, last_step_amt_a |-> <<>>, enabled |-> <<>>,
          amts |-> <<>>, amts_a |-> <<>>, is_cross |-> <<>>, copied |-> TRUE]

NoRefs == [a \in Attrs |-> "none"]

NoLast == [mode |-> "none"]

NoSearch == [pc |-> "none"]

NoEval == [pc |-> "none"]

NotRunning == [pc |-> "none"]

NoMore ==
    /\ fc = NotRunning
    /\ sb = NotRunning
    /\ ro = NotRunning
    /\ tk = NotRunning

Size == Len(cfg.sqrt_gammas)

PoolFresh ==
    /\ heap = [o \in {"orig", "copy"} |->
                 [a \in Attrs |-> IF o = "orig" THEN cfg[a] ELSE <<>>]]
    /\ self = [a \in Attrs |-> "orig"]
    /\ saved = NoRefs
    /\ pc = "idle"
    /\ call = NoCall
    /\ loc = NoLoc
    /\ pre = [a \in Attrs |-> <<>>]
    /\ err = "none"
    /\ last = NoLast

NoPool ==
    /\ variant = "none"
    /\ cfg = <<>>
    /\ heap = <<>>
    /\ self = NoRefs
    /\ saved = NoRefs
    /\ pc = "none"
    /\ call = NoCall
    /\ loc = NoLoc
    /\ pre = <<>>
    /\ err = "none"
    /\ last = NoLast

PoolInit ==
    /\ variant \in {"int", "float"}
    /\ cfg \in PoolConfigs
    /\ PoolFresh

(***************************************************************************)
(* Pool.quote, lines before the swap: keep the references, point the       *)
(* attributes at copies.  quote_copy gives the references after copying.   *)
(***************************************************************************)
quote_no_copy(refs) == refs

quote_copy(refs) == [a \in Attrs |-> "copy"]

(* swap working on the array it was passed *)
swap_locals_shared(tier_choices) ==
    [NoLoc EXCEPT !.tier_choices = tier_choices, !.copied = FALSE]

(* `tier_choices = tier_choices.copy()`: loc.tier_choices is an array of swap's own *)
swap_locals(tier_choices) ==
    [NoLoc EXCEPT !.tier_choices = tier_choices]

Quote(is_token0, amount_desired, tier_choices) ==
    /\ pc = "idle"
    /\ saved' = self
    /\ heap' = [heap EXCEPT !["copy"] = [a \in Attrs |-> Arr(a)]]
    /\ self' = quote_copy(self)
    /\ call' = [mode |-> "quote", is_token0 |-> is_token0,
                amount_desired |-> amount_desired, tier_choices |-> tier_choices]
    /\ loc' = swap_locals(tier_choices)
    /\ pre' = PoolArrays
    /\ pc' = "stepping"
    /\ UNCHANGED <<variant, cfg, err, last, sv, mx, ev, fc, sb, ro, tk>>

(***************************************************************************)
(* Pool.swap called directly: mutates the pool's own arrays                *)
(***************************************************************************)
Swap(is_token0, amount_desired, tier_choices) ==
    /\ pc = "idle"
    /\ call' = [mode |-> "swap", is_token0 |-> is_token0,
                amount_desired |-> amount_desired, tier_choices |-> tier_choices]
    /\ loc' = swap_locals(tier_choices)
    /\ pre' = PoolArrays
    /\ pc' = "stepping"
    /\ UNCHANGED <<variant, cfg, heap, self, saved, err, last, sv, mx, ev, fc, sb, ro, tk>>

(***************************************************************************)
(* Pool.swap: one iteration of the `while True` loop, from the arrays A    *)
(* the pool's attributes refer to and swap's locals l.  Gives the arrays   *)
(* and locals after the iteration and how it ended: "continue", "break"    *)
(* (the loop is left and swap returns) or the exception raised.            *)
(***************************************************************************)
stop_after_one_step(is_exact_in, amount_desired, res_amt_a, tier_choices) == TRUE

stop_criterion(is_exact_in, amount_desired, res_amt_a, tier_choices) ==
    \/ ~AnyTrue(tier_choices)
    \/ IF is_exact_in
       THEN amount_desired - res_amt_a <= SWAP_AMOUNT_TOLERANCE
       ELSE amount_desired - res_amt_a >= -SWAP_AMOUNT_TOLERANCE

too_many_steps(v, res_step_count) ==
    v = "float" /\ res_step_count > MAX_STEP_COUNT

float_stuck(amount_desired, res_amt_a, step_amt_a, last_step_amt_a) ==
    /\ <<step_amt_a>> = last_step_amt_a
    /\ \/ step_amt_a = 0
       \/ abs(amount_desired - res_amt_a) <= (abs(amount_desired) - 1) \div 10^7

(* a crossing that leaves the tier on the tick it crossed *)
cross_tick_unlinked(is_token0_in, A, i, t_cross, d) == A

cross_tick_adding(is_token0_in, A, i, t_cross, d) ==
    IF is_token0_in
    THEN [A EXCEPT !.liquiditys[i] = @ + d.liquidity_delta,
                   !.next_ticks_below[i] = d.next_below,
                   !.next_ticks_above[i] = t_cross]
    ELSE [A EXCEPT !.liquiditys[i] = @ + d.liquidity_delta,
                   !.next_ticks_above[i] = d.next_above,
                   !.next_ticks_below[i] = t_cross]

cross_tick(is_token0_in, A, i, t_cross, d) ==
    IF is_token0_in
    THEN [A EXCEPT !.liquiditys[i] = @ - d.liquidity_delta,
                   !.next_ticks_below[i] = d.next_below,
                   !.next_ticks_above[i] = t_cross]
    ELSE [A EXCEPT !.liquiditys[i] = @ + d.liquidity_delta,
                   !.next_ticks_above[i] = d.next_above,
                   !.next_ticks_below[i] = t_cross]

RECURSIVE handle_cross(_, _, _, _, _, _)
handle_cross(is_token0_in, A, tables, is_cross, next_tick_at, i) ==
    IF i > Len(is_cross) THEN A
    ELSE IF is_cross[i] /\ next_tick_at[i] \notin {MIN_TICK, MAX_TICK}
    THEN handle_cross(is_token0_in,
            cross_tick(is_token0_in, A, i, next_tick_at[i],
                       get_tick_data(tables[i], next_tick_at[i])),
            tables, is_cross, next_tick_at, i + 1)
    ELSE handle_cross(is_token0_in, A, tables, is_cross, next_tick_at, i + 1)

keep_last_tick(tier_choices, is_cross, next_tick_at) == tier_choices

reject_last_tick(tier_choices, is_cross, next_tick_at) ==
    [i \in 1..Len(tier_choices) |->
        tier_choices[i] /\ ~(is_cross[i] /\ next_tick_at[i] \in {MIN_TICK, MAX_TICK})]

swap_raise(A, l, e) ==
    [A |-> A, l |-> [l EXCEPT !.res_step_count = @ + 1], end |-> e]

swap_loop_end(v, amount_desired, last_step_amt_a, A, l, step_amt_a) ==
    IF stop_criterion(amount_desired > 0, amount_desired, l.res_amt_a, l.tier_choices)
    THEN [A |-> A, l |-> l, end |-> "break"]
    ELSE IF v = "int"
    THEN [A |-> A, l |-> l, end |-> "continue"]
    ELSE IF float_stuck(amount_desired, l.res_amt_a, step_amt_a, last_step_amt_a)
    THEN [A |-> A, l |-> l, end |-> "break"]
    ELSE [A |-> A, l |-> [l EXCEPT !.last_step_amt_a = <<step_amt_a>>],
          end |-> IF too_many_steps(v, l.res_step_count) THEN "TooManySteps" ELSE "continue"]

swap_update(v, c, A, is_token0_in, amount_desired, l, sol, st, next_tick_at) ==
    swap_loop_end(v, amount_desired, l.last_step_amt_a,
        handle_cross(is_token0_in,
            [A EXCEPT !.sqrt_prices =
                [i \in 1..Len(st) |-> IF st[i].allowed THEN st[i].sqrt_p_new ELSE @[i]]],
            c.tables, [i \in 1..Len(st) |-> st[i].is_cross], next_tick_at, 1),
        [tier_choices |-> reject_last_tick(l.tier_choices,
                              [i \in 1..Len(st) |-> st[i].is_cross], next_tick_at),
         res_amt_a |-> l.res_amt_a + SumAll([i \in 1..Len(st) |-> st[i].amt_a]),
         res_amt_b |-> l.res_amt_b + SumAll([i \in 1..Len(st) |-> st[i].amt_b]),
         res_fee_amt |-> l.res_fee_amt + SumAll([i \in 1..Len(st) |-> st[i].fee_amt]),
         res_step_count |-> l.res_step_count + 1,
         last_step_amt_a |-> l.last_step_amt_a,
         enabled |-> [i \in 1..Len(st) |-> st[i].allowed],
         amts |-> sol.amts,
         amts_a |-> [i \in 1..Len(st) |-> st[i].amt_a],
         is_cross |-> [i \in 1..Len(st) |-> st[i].is_cross],
         copied |-> l.copied],
        SumAll([i \in 1..Len(st) |-> st[i].amt_a]))

swap_steps(v, c, A, is_token0, amount_desired, l, sol, next_tick_at) ==
    IF sol.err \/ (v = "int" /\ \E i \in 1..Len(A.liquiditys) : A.liquiditys[i] = 0)
    THEN swap_raise(A, l, "ZeroDivisionError")
    ELSE swap_update(v, c, A, is_token0 = (amount_desired > 0), amount_desired, l, sol,
            [i \in 1..Len(c.sqrt_gammas) |->
                IF ~sol.mask[i]
                THEN StepResult(FALSE, FALSE, 0, 0, 0, 0)
                ELSE compute_step(v, is_token0, amount_desired > 0, sol.amts[i],
                        c.sqrt_gammas[i], A.sqrt_prices[i], A.liquiditys[i], next_tick_at[i])],
            next_tick_at)

swap_iteration(v, c, A, is_token0, amount_desired, l) ==
    IF amount_desired > 0
    THEN IF ~(amount_desired - l.res_amt_a > 0)
         THEN swap_raise(A, l, "AssertionError")
         ELSE swap_steps(v, c, A, is_token0, amount_desired, l,
                calc_tier_amounts_in(v, is_token0, amount_desired - l.res_amt_a,
                    l.tier_choices, c.sqrt_gammas, A.sqrt_prices, A.liquiditys),
                IF is_token0 THEN A.next_ticks_below ELSE A.next_ticks_above)
    ELSE IF ~(amount_desired - l.res_amt_a < 0)
         THEN swap_raise(A, l, "AssertionError")
         ELSE swap_steps(v, c, A, is_token0, amount_desired, l,
                calc_tier_amounts_out(v, is_token0, amount_desired - l.res_amt_a,
                    l.tier_choices, c.sqrt_gammas, A.sqrt_prices, A.liquiditys),
                IF is_token0 THEN A.next_ticks_above ELSE A.next_ticks_below)

(***************************************************************************)
(* One loop iteration of the running swap, on the arrays self refers to    *)
(***************************************************************************)
StepPool ==
    /\ pc = "stepping"
    /\ LET r == swap_iteration(variant, cfg, PoolArrays, call.is_token0,
                               call.amount_desired, loc)
       IN  /\ heap' = [o \in {"orig", "copy"} |->
                         [a \in Attrs |-> IF self[a] = o THEN r.A[a] ELSE heap[o][a]]]
           /\ loc' = r.l
           /\ pc' = CASE r.end = "continue" -> "stepping"
                      [] r.end = "break" -> "swap_done"
                      [] OTHER -> "error"
           /\ err' = IF r.end \in {"continue", "break"} THEN "none" ELSE r.end
    /\ UNCHANGED <<variant, cfg, self, saved, call, pre, last, sv, mx, ev, fc, sb, ro>>

(* the iteration in a pool whose tick accessor keeps no state *)
Step ==
    /\ StepPool
    /\ UNCHANGED tk

(***************************************************************************)
(* swap returns its results; quote then puts the kept references back      *)
(***************************************************************************)
Return ==
    /\ pc = "swap_done"
    /\ self' = IF call.mode = "quote" THEN saved ELSE self
    /\ pc' = "returned"
    /\ UNCHANGED <<variant, cfg, heap, saved, call, loc, pre, err, last, sv, mx, ev, fc, sb, ro, tk>>

(***************************************************************************)
(* The caller of a quote goes on to its next call on the same pool         *)
(***************************************************************************)
NextCall ==
    /\ pc = "returned"
    /\ call.mode = "quote"
    /\ pc' = "idle"
    /\ call' = NoCall
    /\ loc' = NoLoc
    /\ saved' = NoRefs
    /\ pre' = [a \in Attrs |-> <<>>]
    /\ heap' = [heap EXCEPT !["copy"] = [a \in Attrs |-> <<>>]]
    /\ last' = NoLast
    /\ UNCHANGED <<variant, cfg, self, err, sv, mx, ev, fc, sb, ro, tk>>

(***************************************************************************)
(* The caller of an exact-in quote asks the same pool, in the same state,  *)
(* for the input an exact-out quote of the output just quoted needs        *)
(***************************************************************************)
QuoteBack ==
    /\ pc = "returned"
    /\ call.mode = "quote"
    /\ call.amount_desired > 0
    /\ last = NoLast
    /\ last' = [mode |-> "quote", is_token0 |-> call.is_token0,
                amount_desired |-> call.amount_desired,
                amt_a |-> loc.res_amt_a, amt_b |-> loc.res_amt_b]
    /\ saved' = self
    /\ heap' = [heap EXCEPT !["copy"] = [a \in Attrs |-> Arr(a)]]
    /\ self' = quote_copy(self)
    /\ call' = [mode |-> "quote", is_token0 |-> ~call.is_token0,
                amount_desired |-> loc.res_amt_b, tier_choices |-> call.tier_choices]
    /\ loc' = swap_locals(call.tier_choices)
    /\ pre' = PoolArrays
    /\ pc' = "stepping"
    /\ UNCHANGED <<variant, cfg, err, sv, mx, ev, fc, sb, ro, tk>>

Next ==
    \/ \E is_token0 \in BOOLEAN, amount_desired \in AmountsDesired, tc \in TierChoices(Size) :
          Quote(is_token0, amount_desired, tc)
    \/ \E is_token0 \in BOOLEAN, amount_desired \in AmountsDesired, tc \in TierChoices(Size) :
          Swap(is_token0, amount_desired, tc)
    \/ Step
    \/ Return
    \/ NextCall

vars == <<poolVars, sv, mx, ev, fc, sb, ro, tk>>

Init ==
    /\ PoolInit
    /\ sv = <<>>
    /\ NoMore
    /\ mx = NoSearch
    /\ ev = NoEval

Spec == Init /\ [][Next]_vars

(***************************************************************************)
(* Round trips through a single-tier int pool: an exact-in quote of x,     *)
(* then an exact-out quote of the output it gave.                          *)
(***************************************************************************)
MaxRoundTripIn == 120

RoundTripAmounts == 1..MaxRoundTripIn

next_tick_below(table, tick) == SetMax({u \in DOMAIN TickTable(table) : u < tick})

next_tick_above(table, tick) == SetMin({u \in DOMAIN TickTable(table) : u > tick})

RoundTripConfigs ==
    { [liquiditys |-> <<l>>,
       sqrt_prices |-> <<tick_to_sqrt_price(t.at) + t.off>>,
       sqrt_gammas |-> <<g>>,
       next_ticks_below |-> <<next_tick_below(t.table, IF t.off = 0 THEN t.at ELSE t.at + 1)>>,
       next_ticks_above |-> <<next_tick_above(t.table, t.at)>>,
       tables |-> <<t.table>>] :
      l \in {200, 57},
      g \in {E5, E5 - 30},
      t \in { [table |-> "dense", at |-> 0, off |-> 0],
              [table |-> "sparse", at |-> 5, off |-> 3],
              [table |-> "wide", at |-> -1, off |-> 0] } }

InitRoundTrip ==
    /\ variant = "int"
    /\ cfg \in RoundTripConfigs
    /\ PoolFresh
    /\ sv = <<>>
    /\ NoMore
    /\ mx = NoSearch
    /\ ev = NoEval

NextRoundTrip ==
    \/ \E is_token0 \in BOOLEAN, x \in RoundTripAmounts : Quote(is_token0, x, <<TRUE>>)
    \/ QuoteBack
    \/ Step
    \/ Return
    \/ NextCall

SpecRoundTrip == InitRoundTrip /\ [][NextRoundTrip]_vars

(***************************************************************************)
(* The allocation solver called on its own: calc_tier_amounts_in for the   *)
(* positive amounts, calc_tier_amounts_out for the negative ones, one      *)
(* action per iteration of the exclude-and-re-solve loop.                  *)
(***************************************************************************)
SolverTiers ==
    { [sqrt_gammas |-> <<E5 - 1, E5 - 2, E5>>,
       sqrt_prices |-> <<tick_to_sqrt_price(a), tick_to_sqrt_price(b), tick_to_sqrt_price(c)>>,
       liquiditys |-> l] :
      a \in {-20, 0}, b \in {0, 20}, c \in {-20, 20},
      l \in {<<200, 120, 50>>, <<100, 0, 100>>, <<0, 0, 0>>} }

SolverAmounts == {-5000, -300, -40, -7, -1, 1, 7, 40, 300, 5000}

solver_call(v, is_token0, amount, tier_choices, t) ==
    [v |-> v, is_in |-> amount > 0, is_token0 |-> is_token0, amount |-> amount,
     tier_choices |-> tier_choices,
     lsg |-> tier_lsg(v, amount > 0, t.sqrt_gammas, t.liquiditys),
     res |-> IF amount > 0
             THEN tier_res_in(v, is_token0, t.sqrt_gammas, t.sqrt_prices, t.liquiditys)
             ELSE tier_res_out(v, is_token0, t.sqrt_prices, t.liquiditys),
     st |-> tier_amounts_start(tier_choices),
     pc |-> "solving"]

InitSolver ==
    /\ NoPool
    /\ NoMore
    /\ \E v \in {"int", "float"}, is_token0 \in BOOLEAN, amount \in SolverAmounts,
          tier_choices \in TierChoices(3), t \in SolverTiers :
          sv = solver_call(v, is_token0, amount, tier_choices, t)
    /\ mx = NoSearch
    /\ ev = NoEval

SolverIterate ==
    /\ sv.pc = "solving"
    /\ ~sv.st.done
    /\ sv' = [sv EXCEPT
                !.st = tier_amounts_iter(sv.v, sv.is_in, sv.lsg, sv.res, sv.amount, sv.st),
                !.pc = IF tier_amounts_iter(sv.v, sv.is_in, sv.lsg, sv.res, sv.amount, sv.st).err
                       THEN "ZeroDivisionError" ELSE "solving"]
    /\ UNCHANGED <<poolVars, mx, ev, fc, sb, ro, tk>>

SolverReturn ==
    /\ sv.pc = "solving"
    /\ sv.st.done
    /\ sv' = [sv EXCEPT !.pc = "returned"]
    /\ UNCHANGED <<poolVars, mx, ev, fc, sb, ro, tk>>

NextSolver ==
    \/ SolverIterate
    \/ SolverReturn

SpecSolver == InitSolver /\ [][NextSolver]_vars

(***************************************************************************)
(* market.py: MuffinPool.quote with all tiers chosen: the int pool's       *)
(* quote runs swap on copies of the fetched arrays and gives res[1]        *)
(***************************************************************************)
RECURSIVE swap_run(_, _, _, _, _)
swap_run_next(c, is_token0, amount_desired, r) ==
    IF r.end = "continue" THEN swap_run(c, r.A, is_token0, amount_desired, r.l) ELSE r

swap_run(c, A, is_token0, amount_desired, l) ==
    swap_run_next(c, is_token0, amount_desired,
        swap_iteration("int", c, A, is_token0, amount_desired, l))

muffin_result(r) ==
    IF r.end = "break" THEN quoted(int_of(r.l.res_amt_b)) ELSE quote_raised(r.end)

muffin_quote(mkt, is_token0, amt_desired) ==
    muffin_result(swap_run(mkt.pool, [a \in Attrs |-> mkt.pool[a]], is_token0,
                           int_value(amt_desired),
                           swap_locals([i \in 1..Len(mkt.pool.sqrt_gammas) |-> TRUE])))

market_quote(mkt, token, amt_desired) ==
    IF mkt.kind = "univ2" THEN univ2_quote(mkt, token = mkt.token0, amt_desired)
    ELSE muffin_quote(mkt, token = mkt.token0, amt_desired)

(***************************************************************************)
(* evaluate.py: arbitrage, the cached function of evaluate_arb.  A call    *)
(* gives the exception raised or (amt_net, amt_bridge, amt_out), with the  *)
(* quotes it asked of the markets.                                         *)
(***************************************************************************)
arbitrage_raised(e, quotes) == [err |-> e, val |-> <<>>, quotes |-> quotes]

arbitrage_out(x, amt_bridge, q2, quotes) ==
    IF q2.err # "none" THEN arbitrage_raised(q2.err, quotes)
    ELSE [err |-> "none",
          val |-> [amt_net |-> int_sub(int_neg(q2.val), x),
                   amt_bridge |-> amt_bridge,
                   amt_out |-> int_neg(q2.val)],
          quotes |-> quotes]

arbitrage_bridge(e, x, q1) ==
    IF q1.err # "none" THEN arbitrage_raised(q1.err, <<[market |-> 1, amt |-> x]>>)
    ELSE arbitrage_out(x, int_neg(q1.val), market_quote(e.m2, "bridge", int_neg(q1.val)),
            <<[market |-> 1, amt |-> x], [market |-> 2, amt |-> int_neg(q1.val)]>>)

arbitrage(e, x) ==
    IF int_lt(x, int_of(0)) THEN arbitrage_raised("AssertionError", <<>>)
    ELSE arbitrage_bridge(e, x, market_quote(e.m1, "in", x))

(* arbitrage without its cache: every call asks the markets *)
arbitrage_uncached(e, x) == arbitrage(e, x)

(* lru_cache: a value computed before is returned without calling arbitrage *)
arbitrage_cached(e, x) ==
    IF x \in DOMAIN e.cache
    THEN [err |-> "none", val |-> e.cache[x], quotes |-> <<>>]
    ELSE arbitrage(e, x)

arbitrage_called(e, x, r) ==
    [e EXCEPT !.cache = IF r.err = "none" /\ x \notin DOMAIN @ THEN (x :> r.val) @@ @ ELSE @,
              !.hits = IF x \in DOMAIN e.cache THEN @ + 1 ELSE @,
              !.quotes = @ \o r.quotes]

(***************************************************************************)
(* token.py: Token.unit                                                    *)
(***************************************************************************)
token_unit(token) == int_pow(int_of(10), token.decimals)

(***************************************************************************)
(* evaluate.py: evaluate_arb, step 1                                       *)
(***************************************************************************)
probe_amount_millionth(unit) ==
    int_max(int_floordiv(unit, int_pow(int_of(10), 6)), int_of(1000))

probe_amount(unit) ==
    int_max(int_floordiv(unit, int_pow(int_of(10), 4)), int_of(1000))

evaluate_probed(e, r) ==
    IF r.err # "none" THEN [e EXCEPT !.pc = r.err]
    ELSE IF int_le(r.val.amt_net, int_of(0))
    THEN [e EXCEPT !.pc = "EvaluationFailure", !.failure = "Not profitable"]
    ELSE [e EXCEPT !.pc = "search"]

EvalProbe ==
    /\ ev.pc = "start"
    /\ ev' = evaluate_probed(
                [arbitrage_called(ev, probe_amount(token_unit(ev.token_in)),
                     arbitrage_cached(ev, probe_amount(token_unit(ev.token_in))))
                   EXCEPT !.test_amt_in = probe_amount(token_unit(ev.token_in))],
                arbitrage_cached(ev, probe_amount(token_unit(ev.token_in))))
    /\ mx' = IF ev'.pc = "search"
             THEN maximize_call([kind |-> "arbitrage"],
                      gen_guess(int_of(1), token_unit(ev.token_in)))
             ELSE mx
    /\ UNCHANGED <<poolVars, sv, fc, sb, ro, tk>>

(***************************************************************************)
(* One iteration of maximize's loop: fn at the last bound, then the        *)
(* bounds advance, the search returns, or it recurses on the five points   *)
(***************************************************************************)
MaximizeStep ==
    /\ mx.pc = "loop"
    /\ IF mx.fn.kind = "parabola"
       THEN /\ mx' = maximize_iteration(mx, parabola(mx.fn.offset, mx.bounds[Len(mx.bounds)]))
            /\ ev' = ev
       ELSE /\ ev' = arbitrage_called(ev, mx.bounds[Len(mx.bounds)],
                         arbitrage_cached(ev, mx.bounds[Len(mx.bounds)]))
            /\ mx' = IF arbitrage_cached(ev, mx.bounds[Len(mx.bounds)]).err # "none"
                     THEN [mx EXCEPT !.pc = arbitrage_cached(ev, mx.bounds[Len(mx.bounds)]).err]
                     ELSE maximize_iteration(mx,
                              arbitrage_cached(ev, mx.bounds[Len(mx.bounds)]).val.amt_net)
    /\ UNCHANGED <<poolVars, sv, fc, sb, ro, tk>>

(***************************************************************************)
(* evaluate_arb, end of step 2: arbitrage at the amount maximize returned  *)
(***************************************************************************)
evaluate_optimum(e, amt_in, r) ==
    IF r.err # "none" THEN [e EXCEPT !.pc = r.err]
    ELSE [e EXCEPT !.pc = "gas", !.amt_in = amt_in, !.amt_net = r.val.amt_net,
                   !.amt_bridge = r.val.amt_bridge, !.amt_out = r.val.amt_out]

EvalOptimum ==
    /\ ev.pc = "search"
    /\ mx.pc # "loop"
    /\ ev' = IF mx.pc # "returned" THEN [ev EXCEPT !.pc = mx.pc]
             ELSE evaluate_optimum(arbitrage_called(ev, mx.result, arbitrage_cached(ev, mx.result)),
                      mx.result, arbitrage_cached(ev, mx.result))
    /\ UNCHANGED <<poolVars, sv, mx, fc, sb, ro, tk>>

(***************************************************************************)
(* evaluate_arb, step 3: the gas cost in the input token and the profit    *)
(***************************************************************************)
GAS_PER_ARB == 190000

gas_in_usdc(gas_cost_wei) ==
    int_floordiv(int_mul(int_mul(gas_cost_wei, int_of(2000)), int_pow(int_of(10), 6)),
                 int_pow(int_of(10), 18))

profit_ignoring_gas(amt_net, gas_cost) == amt_net

profit_of(amt_net, gas_cost) == int_sub(amt_net, gas_cost)

evaluate_profit(e, gas_cost_wei, gas_cost) ==
    IF int_le(profit_of(e.amt_net, gas_cost), int_of(0))
    THEN [e EXCEPT !.pc = "EvaluationFailure", !.failure = "Negative profit",
                   !.gas_cost_wei = gas_cost_wei, !.gas_cost = gas_cost,
                   !.profit = profit_of(e.amt_net, gas_cost)]
    ELSE [e EXCEPT !.pc = "EvaluationResult",
                   !.gas_cost_wei = gas_cost_wei, !.gas_cost = gas_cost,
                   !.profit = profit_of(e.amt_net, gas_cost)]

evaluate_gas(e, gas_cost_wei) ==
    IF e.token_in.address = "ETH_ADDRESS" THEN evaluate_profit(e, gas_cost_wei, gas_cost_wei)
    ELSE IF e.token_in.address = "USDC_ADDRESS"
    THEN evaluate_profit(e, gas_cost_wei, gas_in_usdc(gas_cost_wei))
    ELSE [e EXCEPT !.pc = "NotImplementedError", !.gas_cost_wei = gas_cost_wei]

EvalGasCheck ==
    /\ ev.pc = "gas"
    /\ ev' = evaluate_gas(ev, int_mul(int_of(GAS_PER_ARB), ev.gas_price))
    /\ UNCHANGED <<poolVars, sv, mx, fc, sb, ro, tk>>

(***************************************************************************)
(* maximize called on the parabola with gen_guess(1, x1)                   *)
(***************************************************************************)
scaled(n, k) == int_mul(int_of(n), int_pow(int_of(10), k))

SearchGuesses ==
    {int_of(n) : n \in {2, 3, 7, 10, 1000, 100000, 499999, 500000, 1000000}}
        \cup {scaled(1, 18)}

ParabolaOffsets == {int_mul(parabola_peak, parabola_peak), scaled(1, 12)}

InitSearch ==
    /\ NoPool
    /\ sv = <<>>
    /\ NoMore
    /\ \E x1 \in SearchGuesses, offset \in ParabolaOffsets :
          mx = maximize_call([kind |-> "parabola", offset |-> offset],
                             gen_guess(int_of(1), x1))
    /\ ev = NoEval

NextSearch == MaximizeStep

SpecSearch == InitSearch /\ [][NextSearch]_vars

(***************************************************************************)
(* evaluate_arb called on two markets of one token pair, in both orders    *)
(***************************************************************************)
ETH == [address |-> "ETH_ADDRESS", decimals |-> 18]

USDC == [address |-> "USDC_ADDRESS", decimals |-> 6]

WBTC == [address |-> "WBTC_ADDRESS", decimals |-> 8]

MILLI == [address |-> "MILLI_ADDRESS", decimals |-> 3]

UniV2Pool(token0, reserve0, reserve1) ==
    [kind |-> "univ2", token0 |-> token0, reserve0 |-> reserve0, reserve1 |-> reserve1]

MuffinPool(token0, pool) == [kind |-> "muffin", token0 |-> token0, pool |-> pool]

PoolAtTick(liquiditys, sqrt_gammas, tick, table) ==
    [liquiditys |-> liquiditys,
     sqrt_prices |-> [i \in 1..Len(liquiditys) |-> tick_to_sqrt_price(tick)],
     sqrt_gammas |-> sqrt_gammas,
     next_ticks_below |-> [i \in 1..Len(liquiditys) |-> next_tick_below(table, tick)],
     next_ticks_above |-> [i \in 1..Len(liquiditys) |-> next_tick_above(table, tick)],
     tables |-> [i \in 1..Len(liquiditys) |-> table]]

EvalPairs ==
    { [token_in |-> ETH,
       a |-> UniV2Pool("in", scaled(1000, 18), scaled(2, 12)),
       b |-> UniV2Pool("in", scaled(500, 18), scaled(1, 12))],
      [token_in |-> ETH,
       a |-> UniV2Pool("in", scaled(1000, 18), scaled(21, 11)),
       b |-> UniV2Pool("bridge", scaled(1, 12), scaled(500, 18))],
      [token_in |-> USDC,
       a |-> UniV2Pool("in", scaled(2, 12), scaled(1000, 18)),
       b |-> UniV2Pool("in", scaled(1, 12), scaled(520, 18))],
      [token_in |-> WBTC,
       a |-> UniV2Pool("in", scaled(1, 11), scaled(1, 12)),
       b |-> UniV2Pool("in", scaled(1, 11), scaled(11, 11))],
      [token_in |-> WBTC,
       a |-> UniV2Pool("in", scaled(1, 11), scaled(1, 12)),
       b |-> UniV2Pool("bridge", scaled(1, 13), scaled(1, 12))],
      [token_in |-> MILLI,
       a |-> MuffinPool("in", PoolAtTick(<<200>>, <<E5 - 1>>, 0, "sparse")),
       b |-> UniV2Pool("in", scaled(1, 6), scaled(1, 6))],
      [token_in |-> MILLI,
       a |-> MuffinPool("bridge", PoolAtTick(<<100, 120>>, <<E5 - 1, E5 - 2>>, 0, "sparse")),
       b |-> UniV2Pool("bridge", int_of(1), int_of(1))],
      [token_in |-> MILLI,
       a |-> MuffinPool("bridge", PoolAtTick(<<200, 120>>, <<E5 - 1, E5 - 2>>, 20, "wide")),
       b |-> UniV2Pool("bridge",
                int_mul(int_of(Q72 * Q72), int_of(1000)),
                int_mul(int_of(tick_to_sqrt_price(20) * tick_to_sqrt_price(20)), int_of(1000)))],
      [token_in |-> MILLI,
       a |-> MuffinPool("in", PoolAtTick(<<200>>, <<E5 - 1>>, 0, "sparse")),
       b |-> UniV2Pool("in", scaled(1, 9), scaled(1, 6))] }

GasPrices == {int_of(0), scaled(3, 10), scaled(1, 15)}

evaluate_call(token_in, m1, m2, gas_price) ==
    [token_in |-> token_in, m1 |-> m1, m2 |-> m2, gas_price |-> gas_price,
     pc |-> "start", cache |-> <<>>, hits |-> 0, quotes |-> <<>>, test_amt_in |-> <<>>,
     amt_in |-> <<>>, amt_bridge |-> <<>>, amt_out |-> <<>>, amt_net |-> <<>>,
     gas_cost |-> <<>>, gas_cost_wei |-> <<>>, profit |-> <<>>, failure |-> ""]

InitEvaluate ==
    /\ NoPool
    /\ sv = <<>>
    /\ NoMore
    /\ mx = NoSearch
    /\ \E p \in EvalPairs, gas_price \in GasPrices :
          \/ ev = evaluate_call(p.token_in, p.a, p.b, gas_price)
          \/ ev = evaluate_call(p.token_in, p.b, p.a, gas_price)

NextEvaluate ==
    \/ EvalProbe
    \/ MaximizeStep
    \/ EvalOptimum
    \/ EvalGasCheck

SpecEvaluate == InitEvaluate /\ [][NextEvaluate]_vars

(***************************************************************************)
(* C1: after a quote that returns, the pool's four mutable arrays hold     *)
(* exactly the values they held before the call, in the int and in the     *)
(* float pool.                                                             *)
(***************************************************************************)
QuoteLeavesArraysUnchanged ==
    (pc = "returned" /\ call.mode = "quote") => PoolArrays = pre

(* a returned quote whose simulated swap crossed ticks and changed every   *)
(* one of the four arrays of the copy                                      *)
QuoteCrossedTicks ==
    /\ pc = "returned"
    /\ call.mode = "quote"
    /\ loc.res_step_count >= 2
    /\ \A a \in Attrs : heap["copy"][a] # pre[a]

(***************************************************************************)
(* C2: no swap performs more than 101 steps, and none returns a result     *)
(* after more than 100 steps, in the int as in the float pool.             *)
(***************************************************************************)
StepCountBounded ==
    /\ loc.res_step_count <= MAX_STEP_COUNT + 1
    /\ pc \in {"swap_done", "returned"} => loc.res_step_count <= MAX_STEP_COUNT

(* the float pool alone: a swap never goes past 101 steps, and the swap    *)
(* whose 101st step does not end it raises                                 *)
FloatStepCountBounded ==
    variant = "float" =>
        /\ loc.res_step_count <= MAX_STEP_COUNT + 1
        /\ (pc = "stepping" => loc.res_step_count <= MAX_STEP_COUNT)

FloatTooManySteps ==
    variant = "float" /\ pc = "error" /\ err = "TooManySteps"

(* what the running swap has not consumed of the amount asked for *)
Unconsumed == call.amount_desired - loc.res_amt_a

(***************************************************************************)
(* C3: when the int Pool.swap returns, no tier of tier_choices is enabled  *)
(* any more (each tier the caller enabled sits at the price of MIN_TICK    *)
(* or MAX_TICK), or the unconsumed amount is within 100 units of zero.     *)
(***************************************************************************)
IntSwapReturnsWhenDone ==
    (variant = "int" /\ pc = "swap_done") =>
        \/ /\ ~AnyTrue(loc.tier_choices)
           /\ \A i \in 1..Size : call.tier_choices[i] =>
                 Arr("sqrt_prices")[i] \in
                    {tick_to_sqrt_price(MIN_TICK), tick_to_sqrt_price(MAX_TICK)}
        \/ IF call.amount_desired > 0
           THEN Unconsumed <= SWAP_AMOUNT_TOLERANCE
           ELSE Unconsumed >= -SWAP_AMOUNT_TOLERANCE

(* an int swap that returned because its tiers ran into the last tick,     *)
(* far from the amount asked for                                           *)
IntSwapRanOutOfTicks ==
    /\ variant = "int"
    /\ pc = "swap_done"
    /\ AnyTrue(call.tier_choices)
    /\ ~AnyTrue(loc.tier_choices)
    /\ Unconsumed > SWAP_AMOUNT_TOLERANCE

(***************************************************************************)
(* C6: single-tier pool, x > 0: when the exact-in quote of x gave the      *)
(* output y, the exact-out quote of y from the same pool state, in the     *)
(* same direction, asks for an input of at most x.                         *)
(***************************************************************************)
RoundTripNeverGains ==
    (pc = "returned" /\ last # NoLast) => loc.res_amt_b <= last.amount_desired

(* the returned amounts split the amount asked for over the final mask *)
EnabledCount(mask) == Cardinality({i \in 1..Len(mask) : mask[i]})

SolverSplitsAmount ==
    /\ abs(SumMasked(sv.st.amts, sv.st.mask, 1) - sv.amount) < EnabledCount(sv.st.mask)
    /\ \A i \in 1..Len(sv.st.mask) :
          /\ SignOk(sv.is_in, sv.st.amts[i])
          /\ ~sv.st.mask[i] => sv.st.amts[i] = 0

(***************************************************************************)
(* C4, as claimed: for every tier-choice subset the solver's amounts over  *)
(* the finally enabled tiers add up to the amount asked for to within less *)
(* than one unit per finally enabled tier, no amount has the wrong sign,   *)
(* and every tier outside the final mask gets 0.                           *)
(***************************************************************************)
SolverSplitsAmountForAnySubset ==
    sv.pc = "returned" => SolverSplitsAmount

(***************************************************************************)
(* C4, amended: the same for every tier-choice subset that is not empty    *)
(***************************************************************************)
SolverSplitsAmountForNonEmptySubset ==
    (sv.pc = "returned" /\ AnyTrue(sv.tier_choices)) => SolverSplitsAmount

(* a returned call that excluded a tier and whose amounts do not add up    *)
(* exactly                                                                 *)
SolverExcludedAndRounded ==
    /\ sv.pc = "returned"
    /\ sv.st.mask # sv.tier_choices
    /\ EnabledCount(sv.st.mask) >= 2
    /\ SumMasked(sv.st.amts, sv.st.mask, 1) # sv.amount

(* mask m1 is mask m0 with at least one tier removed and none added *)
MaskShrinks(m0, m1) ==
    /\ \A i \in 1..Len(m0) : m1[i] => m0[i]
    /\ m1 # m0

(***************************************************************************)
(* C5: the solver's loop makes at most (tier count) iterations; every      *)
(* iteration that does not end the loop removes at least one tier from     *)
(* the mask, and no iteration puts a tier back.                            *)
(***************************************************************************)
SolverLoopShrinksMask ==
    /\ [](sv.st.iters <= Len(sv.st.mask))
    /\ [][ /\ \A i \in 1..Len(sv.st.mask) : sv'.st.mask[i] => sv.st.mask[i]
           /\ (sv.pc = "solving" /\ sv'.pc = "solving" /\ ~sv'.st.done)
                 => MaskShrinks(sv.st.mask, sv'.st.mask) ]_vars

(* a call that needed as many iterations as there are tiers                *)
SolverUsedAllIterations ==
    /\ sv.pc = "returned"
    /\ sv.st.iters = Len(sv.st.mask)
    /\ EnabledCount(sv.st.mask) = 1

(***************************************************************************)
(* C7: on f(x) = -(x-500000)^2 + C, maximize(f, gen_guess(1, x1),          *)
(* xatol=1, xrtol=1e-5, fatol=1) returns an x with |x - 500000| <= 1.      *)
(***************************************************************************)
MaximizeFindsPeak ==
    (mx.pc = "returned" /\ mx.fn.kind = "parabola") =>
        /\ int_le(int_sub(mx.result, parabola_peak), int_of(1))
        /\ int_le(int_sub(parabola_peak, mx.result), int_of(1))

(* evaluate_arb has made its first call of arbitrage; what holds of a probe amount *)
Started == ev.pc \notin {"none", "start"}

FailsFastAt(probe) ==
    Started =>
        /\ ev.test_amt_in = probe
        /\ ev.quotes[1] = [market |-> 1, amt |-> probe]
        /\ (probe \in DOMAIN ev.cache /\ int_le(ev.cache[probe].amt_net, int_of(0))) =>
              /\ ev.pc = "EvaluationFailure"
              /\ ev.failure = "Not profitable"
              /\ mx = NoSearch
              /\ Len(ev.quotes) = 2
              /\ ev.quotes[2].market = 2

(***************************************************************************)
(* C8: evaluate_arb first evaluates the round trip at the probe amount     *)
(* max(unit // 10^4, 1000) of the input token; when the net amount at the  *)
(* probe is <= 0 it ends in the "Not profitable" EvaluationFailure with    *)
(* the search never started: each market was quoted once, market1 at the   *)
(* probe amount.                                                           *)
(***************************************************************************)
ProbeAtTenThousandthFailsFast ==
    FailsFastAt(int_max(int_floordiv(token_unit(ev.token_in), scaled(1, 4)), int_of(1000)))

(* C8 as stated: the probe amount is max(unit / 10^6, 1000) *)
ProbeAtMillionthFailsFast ==
    FailsFastAt(int_max(int_floordiv(token_unit(ev.token_in), scaled(1, 6)), int_of(1000)))

ProbeAboveThousandFailedFast ==
    /\ ev.pc = "EvaluationFailure"
    /\ ev.failure = "Not profitable"
    /\ int_lt(int_of(1000), ev.test_amt_in)
    /\ int_lt(ev.cache[ev.test_amt_in].amt_net, int_of(0))
    /\ Len(ev.quotes) = 2

(***************************************************************************)
(* C9: every EvaluationResult has amt_net = amt_out - amt_in,              *)
(* profit = amt_net - gas_cost and profit > 0; whenever the optimum's net  *)
(* amount minus the gas cost in input-token units is <= 0 the call ends    *)
(* in the "Negative profit" EvaluationFailure and gives no result.         *)
(***************************************************************************)
ResultIsProfitAfterGas ==
    /\ ev.pc = "EvaluationResult" =>
          /\ ev.gas_cost # <<>>
          /\ ev.amt_net = int_sub(ev.amt_out, ev.amt_in)
          /\ ev.profit = int_sub(ev.amt_net, ev.gas_cost)
          /\ int_lt(int_of(0), ev.profit)
    /\ (Started /\ ev.gas_cost # <<>>
            /\ int_le(int_sub(ev.amt_net, ev.gas_cost), int_of(0))) =>
          /\ ev.pc = "EvaluationFailure"
          /\ ev.failure = "Negative profit"

ResultWithGasCost ==
    /\ ev.pc = "EvaluationResult"
    /\ int_lt(int_of(0), ev.gas_cost)
    /\ int_lt(ev.gas_cost, ev.gas_cost_wei)

(* the price of the input token in the bridge token, as a ratio, in each market *)
price_in_bridge(mkt, token1_amt, token0_amt) ==
    IF mkt.token0 = "in" THEN [num |-> token1_amt, den |-> token0_amt]
    ELSE [num |-> token0_amt, den |-> token1_amt]

market_price(mkt) ==
    IF mkt.kind = "univ2" THEN price_in_bridge(mkt, mkt.reserve1, mkt.reserve0)
    ELSE price_in_bridge(mkt, int_of(mkt.pool.sqrt_prices[1] * mkt.pool.sqrt_prices[1]),
                         int_of(Q72 * Q72))

one_price(mkt) ==
    mkt.kind = "muffin" =>
        \A i \in 1..Len(mkt.pool.sqrt_prices) : mkt.pool.sqrt_prices[i] = mkt.pool.sqrt_prices[1]

EqualPrices ==
    /\ Started
    /\ one_price(ev.m1)
    /\ one_price(ev.m2)
    /\ int_mul(market_price(ev.m1).num, market_price(ev.m2).den)
         = int_mul(market_price(ev.m2).num, market_price(ev.m1).den)

(***************************************************************************)
(* C10: for two markets of one token pair with equal prices, evaluate_arb  *)
(* ends in the "Not profitable" EvaluationFailure in both orders of the    *)
(* markets.                                                                *)
(***************************************************************************)
EqualPricesNotProfitable ==
    EqualPrices => (ev.pc = "EvaluationFailure" /\ ev.failure = "Not profitable")

(* with equal prices evaluate_arb never gives an EvaluationResult *)
EqualPricesNoResult ==
    EqualPrices => ev.pc # "EvaluationResult"

EqualPricesMuffinSecondFailed ==
    /\ EqualPrices
    /\ ev.m2.kind = "muffin"
    /\ ev.pc = "EvaluationFailure"
    /\ ev.failure = "Not profitable"

(***************************************************************************)
(* A single tier with a 0% fee (sqrt_gamma = E5, gamma = E10) between the  *)
(* sentinel ticks: token0 is swapped in, through swap and through quote    *)
(***************************************************************************)
ZeroFeeConfigs ==
    { [liquiditys |-> <<l>>,
       sqrt_prices |-> <<tick_to_sqrt_price(t) + off>>,
       sqrt_gammas |-> <<E5>>,
       next_ticks_below |-> <<MIN_TICK>>,
       next_ticks_above |-> <<MAX_TICK>>,
       tables |-> <<"wide">>] :
      l \in {200, 128, 57}, t \in {-30, 0, 10, 40}, off \in {0, 1} }

ZeroFeeAmounts == {1, 3, 10, 25, 60, 100, 150, 400}

InitZeroFee ==
    /\ variant = "int"
    /\ cfg \in ZeroFeeConfigs
    /\ PoolFresh
    /\ sv = <<>>
    /\ NoMore
    /\ mx = NoSearch
    /\ ev = NoEval

NextZeroFee ==
    \/ \E amount_desired \in ZeroFeeAmounts : Swap(TRUE, amount_desired, <<TRUE>>)
    \/ \E amount_desired \in ZeroFeeAmounts : Quote(TRUE, amount_desired, <<TRUE>>)
    \/ Step
    \/ Return
    \/ NextCall

SpecZeroFee == InitZeroFee /\ [][NextZeroFee]_vars

(* the token0 input that takes the tier's price, as it was at the call, to MIN_TICK *)
AmountToMinTick ==
    calc_amt0_from_sqrt_p(pre.sqrt_prices[1], tick_to_sqrt_price(MIN_TICK), pre.liquiditys[1])

(***************************************************************************)
(* C11: one tier with a 0% fee between MIN_TICK and MAX_TICK: an exact-in  *)
(* token0 swap of an amount that does not reach MIN_TICK takes the whole   *)
(* amount in one step with no fee and no tick crossed, and its output is   *)
(* calc_amt1_from_sqrt_p of the old price and of the price                 *)
(* calc_sqrt_p_from_amt gives for the input.                               *)
(***************************************************************************)
ZeroFeeSwapIsClosedForm ==
    (pc = "swap_done" /\ call.amount_desired < AmountToMinTick) =>
        /\ loc.res_amt_a = call.amount_desired
        /\ loc.res_fee_amt = 0
        /\ loc.res_step_count = 1
        /\ loc.is_cross = <<FALSE>>
        /\ Arr("sqrt_prices")[1] =
              calc_sqrt_p_from_amt(TRUE, pre.sqrt_prices[1], pre.liquiditys[1],
                                   call.amount_desired)
        /\ loc.res_amt_b =
              calc_amt1_from_sqrt_p(pre.sqrt_prices[1],
                  calc_sqrt_p_from_amt(TRUE, pre.sqrt_prices[1], pre.liquiditys[1],
                                       call.amount_desired),
                  pre.liquiditys[1])

(* a zero-fee swap that stayed short of MIN_TICK and paid out token1 *)
ZeroFeeSwapPaidOut ==
    /\ pc = "swap_done"
    /\ call.mode = "swap"
    /\ call.amount_desired < AmountToMinTick
    /\ call.amount_desired >= 60
    /\ loc.res_amt_b < -20

(***************************************************************************)
(* tick_math: a call of _sqrt_p_to_tick on the sqrt price of a tick, and   *)
(* the sqrt price of the tick above it.  _tick_to_sqrt_p runs one factor   *)
(* per step; fc.purpose says which of its three calls is running: the      *)
(* price of the tick, the price _sqrt_p_to_tick compares against, or the   *)
(* price of the next tick.                                                 *)
(***************************************************************************)
Idle ==
    /\ NoPool
    /\ sv = <<>>
    /\ mx = NoSearch
    /\ ev = NoEval

TickSamples ==
    {TICK_MIN, TICK_MIN + 1, -776000, -676364, -676363, -676362, -500001, -476364, -476363,
     -476362, -262144, -131073, -65535, -4097, -1000, -255, -2, -1, 0, 1, 2, 3, 127, 1024,
     6931, 69314, 131071, 262144, 400000, 524288, 700001, TICK_MAX - 1, TICK_MAX}

tick_call(fn, purpose, tick) == [fn EXCEPT !.pc = "factors", !.purpose = purpose, !.arg = tick,
                                           !.k = 1, !.r = int_shl(int_of(1), 128)]

TickCall(tick) ==
    /\ fc = NotRunning
    /\ fc' = tick_call([pc |-> "none", tick |-> tick, purpose |-> "none", arg |-> 0, k |-> 0,
                        r |-> int_of(0), sqrt_p |-> int_of(0), next_sqrt_p |-> int_of(0),
                        dv |-> [i |-> 0, q |-> <<>>, rem |-> <<>>],
                        msb |-> 0, i |-> 0, y |-> int_of(0), res |-> int_of(0),
                        tick_upper |-> 0, tick_lower |-> 0, result |-> 0],
                       "price", tick)
    /\ UNCHANGED <<poolVars, sv, mx, ev, sb, ro, tk>>

TickFactor ==
    /\ fc.pc = "factors"
    /\ fc.k <= Len(TickFactors128)
    /\ fc' = [fc EXCEPT !.r = tick_factor(abs(fc.arg), fc.k, fc.r), !.k = fc.k + 1]
    /\ UNCHANGED <<poolVars, sv, mx, ev, sb, ro, tk>>

(* after the tick is known: the price of the next tick, if there is one *)
tick_found(fn, tick) ==
    IF fn.tick < TICK_MAX
    THEN tick_call([fn EXCEPT !.result = tick], "next", fn.tick + 1)
    ELSE [fn EXCEPT !.result = tick, !.pc = "done"]

tick_returned(fn, sqrt_p) ==
    IF fn.purpose = "price" THEN [fn EXCEPT !.sqrt_p = sqrt_p, !.pc = "msb"]
    ELSE IF fn.purpose = "compare"
    THEN tick_found(fn, IF int_le(sqrt_p, fn.sqrt_p) THEN fn.tick_upper ELSE fn.tick_lower)
    ELSE [fn EXCEPT !.next_sqrt_p = sqrt_p, !.pc = "done"]

(* after the factors: `if tick >= 0: r = (2**256 - 1) // r`, a digit per step *)
TickInvert ==
    /\ \/ fc.pc = "factors" /\ fc.k > Len(TickFactors128)
       \/ fc.pc = "invert"
    /\ fc' = IF fc.pc = "factors"
             THEN IF fc.arg >= 0
                  THEN [fc EXCEPT !.pc = "invert",
                                  !.dv = [i |-> Len(UINT256_MAX.mag), q |-> <<>>, rem |-> <<>>]]
                  ELSE [fc EXCEPT !.pc = "shrink"]
             ELSE IF fc.dv.i > 0 THEN [fc EXCEPT !.dv = tick_invert_digit(fc.dv, fc.r)]
             ELSE [fc EXCEPT !.pc = "shrink", !.r = int_make(FALSE, mag_norm(fc.dv.q))]
    /\ UNCHANGED <<poolVars, sv, mx, ev, sb, ro, tk>>

TickReturn ==
    /\ fc.pc = "shrink"
    /\ fc' = tick_returned(fc, tick_shrink(fc.r))
    /\ UNCHANGED <<poolVars, sv, mx, ev, sb, ro, tk>>

tick_log2_start(fn, msb) ==
    [fn EXCEPT !.pc = "log2", !.msb = msb, !.res = int_shl(int_of(msb - TICK_NFRAC), 64),
               !.y = int_shl(fn.sqrt_p, 127 - msb), !.i = 63]

TickMsb ==
    /\ fc.pc = "msb"
    /\ fc' = IF int_lt(int_of(0), fc.sqrt_p) /\ ~int_has_bit(fc.sqrt_p, 128)
             THEN tick_log2_start(fc, most_significant_bit(fc.sqrt_p, 0, 64))
             ELSE [fc EXCEPT !.pc = "error"]
    /\ UNCHANGED <<poolVars, sv, mx, ev, sb, ro, tk>>

tick_log2_next(fn, yr) == [fn EXCEPT !.y = yr.y, !.res = yr.res, !.i = fn.i - 1]

TickLog2 ==
    /\ fc.pc = "log2"
    /\ fc.i > 45
    /\ fc' = tick_log2_next(fc, log2_iteration(fc.y, fc.res, fc.i))
    /\ UNCHANGED <<poolVars, sv, mx, ev, sb, ro, tk>>

tick_estimated(fn, tick_upper, tick_lower) ==
    IF tick_upper = tick_lower
    THEN tick_found([fn EXCEPT !.tick_upper = tick_upper, !.tick_lower = tick_lower], tick_upper)
    ELSE IF tick_upper < TICK_MIN \/ tick_upper > TICK_MAX
    THEN [fn EXCEPT !.tick_upper = tick_upper, !.tick_lower = tick_lower, !.pc = "error"]
    ELSE tick_call([fn EXCEPT !.tick_upper = tick_upper, !.tick_lower = tick_lower],
                   "compare", tick_upper)

tick_scaled(fn, res) == tick_estimated([fn EXCEPT !.res = res], tick_upper_of(res), tick_lower_of(res))

TickEstimate ==
    /\ fc.pc = "log2"
    /\ fc.i = 45
    /\ fc' = tick_scaled(fc, int_mul(fc.res, LOG2_TO_TICK))
    /\ UNCHANGED <<poolVars, sv, mx, ev, sb, ro, tk>>

InitTick ==
    /\ Idle
    /\ NoMore

NextTick ==
    \/ \E tick \in TickSamples : TickCall(tick)
    \/ TickFactor
    \/ TickInvert
    \/ TickReturn
    \/ TickMsb
    \/ TickLog2
    \/ TickEstimate

SpecTick == InitTick /\ [][NextTick]_vars

(***************************************************************************)
(* C12: converting a tick to its sqrt price and the sqrt price back to a   *)
(* tick gives the tick again: sqrt_price_to_tick(tick_to_sqrt_price(tick)) *)
(* is tick, and the conversion back never fails.                           *)
(***************************************************************************)
TickRoundTrips ==
    /\ fc.pc # "error"
    /\ (fc.pc = "done" \/ (fc.pc = "factors" /\ fc.purpose = "next")) => fc.result = fc.tick

TickRoundTripCompared ==
    /\ fc.pc = "done"
    /\ fc.tick_upper # fc.tick_lower
    /\ fc.tick < -676363
    /\ fc.result = fc.tick

(***************************************************************************)
(* C13: tick_to_sqrt_price is strictly increasing: the sqrt price of a     *)
(* tick is below the sqrt price of the tick above it.                      *)
(***************************************************************************)
TickPriceIncreases ==
    (fc.pc = "done" /\ fc.tick < TICK_MAX) => int_lt(fc.sqrt_p, fc.next_sqrt_p)

TickPriceRose ==
    /\ fc.pc = "done"
    /\ fc.tick = -1
    /\ int_lt(fc.sqrt_p, int_shl(int_of(1), TICK_NFRAC))
    /\ fc.next_sqrt_p = int_shl(int_of(1), TICK_NFRAC)

(***************************************************************************)
(* main.py: subscribe.  ws.messages is the queue of the block messages the *)
(* connection has read and the loop has not yet received.  The loop runs   *)
(* on one thread with the reader of the connection: a message joins the    *)
(* queue only while the loop waits inside ws.recv() on an empty queue or   *)
(* while run_once holds the thread and the messages pile up behind it.     *)
(* sb.pending and sb.dropped record, for the claims, the messages that     *)
(* were queued when the last pass returned and the ones skipped since, and *)
(* sb.behind how many messages were queued behind the last one received.   *)
(***************************************************************************)
MaxBlocks == 6

(* a skip test that lets one queued message pass *)
skip_minted_late(messages) == Len(messages) >= 2

(* `if len(ws.messages) >= 1` *)
skip_minted(messages) == Len(messages) >= 1

Subscribe ==
    /\ sb = NotRunning \/ sb.pc = "closed"
    /\ sb' = [pc |-> "recv", minted |-> IF sb = NotRunning THEN 0 ELSE sb.minted,
              messages |-> <<>>, block |-> 0, behind |-> 0, pending |-> <<>>, dropped |-> <<>>]
    /\ UNCHANGED <<poolVars, sv, mx, ev, fc, ro, tk>>

BlockArrives ==
    /\ sb.pc \in {"waiting", "pass"}
    /\ sb.minted < MaxBlocks
    /\ sb' = [sb EXCEPT !.minted = sb.minted + 1, !.messages = Append(sb.messages, sb.minted + 1)]
    /\ UNCHANGED <<poolVars, sv, mx, ev, fc, ro, tk>>

(* ws.recv() returned the head of the queue: skip it or run a pass on it *)
subscribe_received(s, message, messages) ==
    IF skip_minted(messages)
    THEN [s EXCEPT !.pc = "recv", !.messages = messages, !.block = message,
                   !.behind = Len(messages), !.dropped = Append(s.dropped, message)]
    ELSE [s EXCEPT !.pc = "pass", !.messages = messages, !.block = message,
                   !.behind = Len(messages)]

Recv ==
    /\ \/ sb.pc = "recv"
       \/ sb.pc = "waiting" /\ sb.messages # <<>>
    /\ sb' = IF sb.messages = <<>> THEN [sb EXCEPT !.pc = "waiting"]
             ELSE subscribe_received(sb, Head(sb.messages), Tail(sb.messages))
    /\ UNCHANGED <<poolVars, sv, mx, ev, fc, ro, tk>>

(* run_once returned *)
PassDone ==
    /\ sb.pc = "pass"
    /\ sb' = [sb EXCEPT !.pc = "recv", !.pending = sb.messages, !.dropped = <<>>]
    /\ UNCHANGED <<poolVars, sv, mx, ev, fc, ro, tk>>

(* run_once raised: subscribe ends and its caller connects again *)
PassRaised ==
    /\ sb.pc = "pass"
    /\ sb' = [sb EXCEPT !.pc = "closed", !.messages = <<>>, !.pending = <<>>, !.dropped = <<>>]
    /\ UNCHANGED <<poolVars, sv, mx, ev, fc, ro, tk>>

InitSubscribe ==
    /\ Idle
    /\ NoMore

NextSubscribe ==
    \/ Subscribe
    \/ BlockArrives
    \/ Recv
    \/ PassDone
    \/ PassRaised

SpecSubscribe == InitSubscribe /\ [][NextSubscribe]_vars

(***************************************************************************)
(* C14: a received block message starts a pass only if no newer message is *)
(* queued when it is received, and of the k >= 1 messages queued during a  *)
(* pass the loop drops the first k-1 without a pass and runs the next pass *)
(* on the last one.                                                        *)
(***************************************************************************)
SubscribeRunsOnNewest ==
    /\ sb.pc = "pass" => /\ sb.behind = 0
                         /\ \A i \in 1..Len(sb.messages) : sb.messages[i] > sb.block
                         /\ \A i \in 1..Len(sb.dropped) : sb.dropped[i] < sb.block
    /\ (sb.pc = "recv" /\ sb.pending # <<>>) => sb.dropped \o sb.messages = sb.pending
    /\ (sb.pc = "pass" /\ sb.pending # <<>>) => sb.dropped \o <<sb.block>> = sb.pending

SubscribeDroppedStale ==
    /\ sb.pc = "pass"
    /\ Len(sb.pending) = 3
    /\ Len(sb.dropped) = 2
    /\ sb.block = sb.pending[3]

(***************************************************************************)
(* main.py: run_once, from the list of EvaluationResults on.  A result is  *)
(* [pair, profit]: pair is its place in the order of evaluation.  send_arb *)
(* sends the transaction, raises Skip, or raises another exception.        *)
(***************************************************************************)
MaxResults == 3

Profits == {10, 20, 30}

(* results in ascending order of profit, equal profits in the order found *)
RECURSIVE insert_by_profit(_, _)
insert_by_profit(sorted, res) ==
    IF sorted = <<>> THEN <<res>>
    ELSE IF sorted[Len(sorted)].profit <= res.profit THEN Append(sorted, res)
    ELSE Append(insert_by_profit(SubSeq(sorted, 1, Len(sorted) - 1), res), sorted[Len(sorted)])

RECURSIVE sorted_by_profit(_, _, _)
sorted_by_profit(results, i, sorted) ==
    IF i > Len(results) THEN sorted
    ELSE sorted_by_profit(results, i + 1, insert_by_profit(sorted, results[i]))

ResultLists ==
    UNION { { [i \in 1..n |-> [pair |-> i, profit |-> p[i]]] : p \in [1..n -> Profits] } : n \in 0..MaxResults }

(* lines 89-91: no result, nothing to send; else sort and start the loop *)
RunOnce(results) ==
    /\ ro = NotRunning
    /\ ro' = [pc |-> IF results = <<>> THEN "done" ELSE "send", found |-> results,
              results |-> IF results = <<>> THEN <<>> ELSE sorted_by_profit(results, 1, <<>>),
              i |-> 1, attempted |-> <<>>, sent |-> <<>>]
    /\ UNCHANGED <<poolVars, sv, mx, ev, fc, sb, tk>>

(* lines 92-99: one iteration of `for res in results` *)
SendArb(outcome) ==
    /\ ro.pc = "send"
    /\ ro' = IF ro.i > Len(ro.results) THEN [ro EXCEPT !.pc = "done"]
             ELSE IF outcome = "sent"
             THEN [ro EXCEPT !.pc = "done", !.attempted = Append(ro.attempted, ro.results[ro.i]),
                             !.sent = Append(ro.sent, ro.results[ro.i])]
             ELSE IF outcome = "skip"
             THEN [ro EXCEPT !.i = ro.i + 1, !.attempted = Append(ro.attempted, ro.results[ro.i])]
             ELSE [ro EXCEPT !.pc = "error", !.attempted = Append(ro.attempted, ro.results[ro.i])]
    /\ UNCHANGED <<poolVars, sv, mx, ev, fc, sb, tk>>

InitRunOnce ==
    /\ Idle
    /\ NoMore

NextRunOnce ==
    \/ \E results \in ResultLists : RunOnce(results)
    \/ \E outcome \in {"sent", "skip", "raise"} : SendArb(outcome)

SpecRunOnce == InitRunOnce /\ [][NextRunOnce]_vars

MaxProfit(results) == CHOOSE p \in Profits :
    /\ \E i \in 1..Len(results) : results[i].profit = p
    /\ \A i \in 1..Len(results) : results[i].profit <= p

(***************************************************************************)
(* C15: the first arbitrage run_once attempts to send is the result with   *)
(* the highest profit, a less profitable one is attempted only after every *)
(* more profitable one was skipped, and at most one is sent in a pass.     *)
(***************************************************************************)
SendsMostProfitableFirst ==
    (ro.pc # "none" /\ ro.attempted # <<>>) =>
        /\ ro.attempted[1].profit = MaxProfit(ro.found)
        /\ \A i \in 1..Len(ro.attempted) - 1 : ro.attempted[i].profit >= ro.attempted[i + 1].profit
        /\ Len(ro.sent) <= 1

(* what the loop does: at most one send, attempts in ascending order of profit *)
SendsLeastProfitableFirst ==
    (ro.pc # "none" /\ ro.attempted # <<>>) =>
        /\ \A i \in 1..Len(ro.found) : ro.attempted[1].profit <= ro.found[i].profit
        /\ \A i \in 1..Len(ro.attempted) - 1 : ro.attempted[i].profit <= ro.attempted[i + 1].profit
        /\ Len(ro.sent) <= 1
        /\ ro.sent # <<>> => ro.sent[1] = ro.attempted[Len(ro.attempted)]

SentAfterSkips ==
    /\ ro.pc = "done"
    /\ Len(ro.attempted) = 3
    /\ Len(ro.sent) = 1
    /\ ro.attempted[1].profit < ro.sent[1].profit

(***************************************************************************)
(* market.py: a MuffinPool, whose int pool asks _get_tick_data for the     *)
(* tick it crosses.  tk.cache is tick_cache as the set of the entries that *)
(* hold a record, tk.fetches the getTick calls made, tk.calls the requests *)
(* of the last loop iteration and tk.cached whether each was answered from *)
(* the cache, tk.answers every answer given so far.  A record carries the  *)
(* block the chain was at when it was fetched.                             *)
(***************************************************************************)
MaxHeads == 2

(* a cache that never holds the key *)
tick_cache_miss(cache, tier_id, tick) == FALSE

(* `cached = self.tick_cache[tier_id][tick]` is a record *)
tick_cache_hit(cache, tier_id, tick) == \E c \in cache : c.tier_id = tier_id /\ c.tick = tick

tick_cached(cache, tier_id, tick) == (CHOOSE c \in cache : c.tier_id = tier_id /\ c.tick = tick).record

(* hub_contract.functions.getTick(pool_id, tier_id, tick).call() *)
getTick(table, tick, head) == [data |-> get_tick_data(table, tick), head |-> head]

tick_answered(t, tier_id, tick, record, cached) ==
    [t EXCEPT !.calls = Append(@, <<tier_id, tick>>),
              !.cached = Append(@, cached),
              !.answers = @ \cup {[tier_id |-> tier_id, tick |-> tick, record |-> record]}]

tick_fetched(t, tier_id, tick, record) ==
    tick_answered([t EXCEPT !.cache = @ \cup {[tier_id |-> tier_id, tick |-> tick, record |-> record]},
                            !.fetches = Append(@, <<tier_id, tick>>)],
                  tier_id, tick, record, FALSE)

MuffinPool_get_tick_data(t, tables, tier_id, tick) ==
    IF tick_cache_hit(t.cache, tier_id, tick)
    THEN tick_answered(t, tier_id, tick, tick_cached(t.cache, tier_id, tick), TRUE)
    ELSE tick_fetched(t, tier_id, tick, getTick(tables[tier_id], tick, t.head))

(* `for i in np.nonzero(is_cross)[0]`: the requests of one loop iteration *)
RECURSIVE tick_requests(_, _, _, _, _)
tick_requests(t, tables, is_cross, next_tick_at, i) ==
    IF i > Len(is_cross) THEN t
    ELSE IF is_cross[i] /\ next_tick_at[i] \notin {MIN_TICK, MAX_TICK}
    THEN tick_requests(MuffinPool_get_tick_data(t, tables, i, next_tick_at[i]),
                       tables, is_cross, next_tick_at, i + 1)
    ELSE tick_requests(t, tables, is_cross, next_tick_at, i + 1)

StepCached ==
    /\ tk.pc = "pool"
    /\ StepPool
    /\ tk' = IF pc' = "error" THEN [tk EXCEPT !.calls = <<>>, !.cached = <<>>]
             ELSE tick_requests([tk EXCEPT !.calls = <<>>, !.cached = <<>>,
                                           !.below = Arr("next_ticks_below"),
                                           !.above = Arr("next_ticks_above")],
                                cfg.tables, loc'.is_cross,
                                IF call.is_token0 = (call.amount_desired > 0)
                                THEN Arr("next_ticks_below") ELSE Arr("next_ticks_above"), 1)

(* a new block: what getTick reads from now on *)
NewHead ==
    /\ tk.pc = "pool"
    /\ tk.head < MaxHeads
    /\ tk' = [tk EXCEPT !.head = @ + 1]
    /\ UNCHANGED <<poolVars, sv, mx, ev, fc, sb, ro>>

CachePools ==
    { [liquiditys |-> <<100, 120>>,
       sqrt_prices |-> <<tick_to_sqrt_price(0), tick_to_sqrt_price(2)>>,
       sqrt_gammas |-> <<E5 - 1, E5 - 2>>,
       next_ticks_below |-> <<-5, -5>>,
       next_ticks_above |-> <<5, 5>>,
       tables |-> <<"sparse", "sparse">>] }

CacheAmounts == {40, -40, 150, -150}

InitCache ==
    /\ variant = "int"
    /\ cfg \in CachePools
    /\ PoolFresh
    /\ sv = <<>>
    /\ mx = NoSearch
    /\ ev = NoEval
    /\ fc = NotRunning
    /\ sb = NotRunning
    /\ ro = NotRunning
    /\ tk = [pc |-> "pool", cache |-> {}, fetches |-> <<>>, calls |-> <<>>, cached |-> <<>>,
             answers |-> {},
             head |-> 0, below |-> <<>>, above |-> <<>>]

NextCache ==
    \/ \E is_token0 \in BOOLEAN, amount_desired \in CacheAmounts :
          Quote(is_token0, amount_desired, <<TRUE, TRUE>>)
    \/ StepCached
    \/ Return
    \/ NextCall
    \/ NewHead

SpecCache == InitCache /\ [][NextCache]_vars

(* the tiers whose next ticks the last iteration moved, with the tick crossed *)
RECURSIVE TicksCrossed(_)
TicksCrossed(i) ==
    IF i > Size THEN <<>>
    ELSE IF Arr("next_ticks_below")[i] # tk.below[i] \/ Arr("next_ticks_above")[i] # tk.above[i]
    THEN <<<<i, IF call.is_token0 = (call.amount_desired > 0)
                THEN Arr("next_ticks_above")[i] ELSE Arr("next_ticks_below")[i]>>>> \o TicksCrossed(i + 1)
    ELSE TicksCrossed(i + 1)

(***************************************************************************)
(* C16: in a loop iteration the pool asks the tick accessor once for each  *)
(* tier that crossed a tick other than MIN_TICK and MAX_TICK, with the     *)
(* tier and the crossed tick; a MuffinPool fetches a (tier, tick) from the *)
(* chain at most once in its life, and every answer for a key is the same  *)
(* record.                                                                 *)
(***************************************************************************)
TickFetchedOncePerKey ==
    tk.pc = "pool" =>
        /\ \A i, j \in 1..Len(tk.fetches) : i # j => tk.fetches[i] # tk.fetches[j]
        /\ \A a, b \in tk.answers : (a.tier_id = b.tier_id /\ a.tick = b.tick) => a.record = b.record
        /\ (pc \in {"stepping", "swap_done"} /\ loc.res_step_count > 0) => tk.calls = TicksCrossed(1)

TickAnsweredFromCache ==
    /\ tk.pc = "pool"
    /\ pc = "stepping"
    /\ tk.cached = <<TRUE, TRUE>>
    /\ tk.calls = TicksCrossed(1)
    /\ tk.head > 0
    /\ \A c \in tk.cache : c.record.head = 0
    /\ Cardinality(tk.cache) >= 3

(***************************************************************************)
(* C17: in one call of evaluate_arb each market is quoted at most once for *)
(* an input amount x, over the probe, the search and the evaluation of the *)
(* optimum, and arbitrage(x) asked again gives the triple it gave first.   *)
(* ev.quotes is the list of the quotes asked, ev.hits the number of calls  *)
(* of arbitrage answered by its cache.                                     *)
(***************************************************************************)
ArbitrageOncePerAmount ==
    ev.pc # "none" =>
        /\ \A i, j \in 1..Len(ev.quotes) :
              (i < j /\ ev.quotes[i].market = 1 /\ ev.quotes[j].market = 1)
                  => ev.quotes[i].amt # ev.quotes[j].amt
        /\ \A i \in 1..Len(ev.quotes) :
              ev.quotes[i].market = 2 => (i > 1 /\ ev.quotes[i - 1].market = 1)
        /\ ev.pc = "gas" =>
              /\ \A x \in DOMAIN ev.cache : ev.cache[x] = arbitrage(ev, x).val
              /\ ev.amt_net = ev.cache[ev.amt_in].amt_net
              /\ ev.amt_bridge = ev.cache[ev.amt_in].amt_bridge
              /\ ev.amt_out = ev.cache[ev.amt_in].amt_out

ArbitrageAskedAgain ==
    /\ ev.pc = "gas"
    /\ ev.hits >= 2
    /\ Len(ev.quotes) >= 10
    /\ Len(ev.quotes) = 2 * Cardinality(DOMAIN ev.cache)


(***************************************************************************)
(* C18: when the swap run inside quote ends in an error, the pool's four   *)
(* mutable arrays hold their pre-call values when the error reaches the    *)
(* caller.                                                                 *)
(***************************************************************************)
QuoteErrorRestoresArrays ==
    (pc = "error" /\ call.mode = "quote") => PoolArrays = pre

(* what quote does: it has no handler around the swap, so an error leaves  *)
(* the pool's attributes on the copies, with whatever the steps before the *)
(* error wrote into them; the arrays of the call are kept only in quote's  *)
(* locals, which are gone with its frame                                   *)
QuoteErrorLeavesCopies ==
    (pc = "error" /\ call.mode = "quote") =>
        /\ self = quote_copy(saved)
        /\ PoolArrays = heap["copy"]
        /\ [a \in Attrs |-> heap[saved[a]][a]] = pre

QuoteErrorAfterSteps ==
    /\ pc = "error"
    /\ call.mode = "quote"
    /\ loc.res_step_count >= 2
    /\ PoolArrays # pre


(***************************************************************************)
(* C19: from a pool whose tiers have their sqrt price between the sqrt     *)
(* prices of their next ticks and liquidity >= 0, every tier still has     *)
(* both after every step of a swap; and a step moves a tier's price        *)
(* neither past the next tick in the swap direction nor against the swap   *)
(* direction.                                                              *)
(***************************************************************************)
TierWithinNextTicks(A, i) ==
    /\ tick_to_sqrt_price(A.next_ticks_below[i]) <= A.sqrt_prices[i]
    /\ A.sqrt_prices[i] <= tick_to_sqrt_price(A.next_ticks_above[i])
    /\ A.liquiditys[i] >= 0

is_token0_in(c) == c.is_token0 = (c.amount_desired > 0)

StepKeepsDirection(c, A, sqrt_prices_new, i) ==
    IF is_token0_in(c)
    THEN /\ sqrt_prices_new[i] <= A.sqrt_prices[i]
         /\ tick_to_sqrt_price(A.next_ticks_below[i]) <= sqrt_prices_new[i]
    ELSE /\ A.sqrt_prices[i] <= sqrt_prices_new[i]
         /\ sqrt_prices_new[i] <= tick_to_sqrt_price(A.next_ticks_above[i])

StepKeepsTiersWithinNextTicks ==
    /\ [](\A i \in 1..Size : TierWithinNextTicks(PoolArrays, i))
    /\ [][pc = "stepping" =>
            \A i \in 1..Size :
                StepKeepsDirection(call, PoolArrays, heap'[self'["sqrt_prices"]]["sqrt_prices"], i)]_vars

(* a step in which one tier crossed a tick that carries liquidity, ending   *)
(* on the tick, while another tier moved inside its tick range             *)
StepCrossedAndStopped ==
    /\ pc = "swap_done"
    /\ \E i \in 1..Size :
          /\ loc.is_cross[i]
          /\ Arr("liquiditys")[i] # pre.liquiditys[i]
          /\ Arr("next_ticks_below")[i] # pre.next_ticks_below[i]
          /\ Arr("sqrt_prices")[i] = tick_to_sqrt_price(Arr("next_ticks_above")[i])
    /\ \E j \in 1..Size :
          /\ ~loc.is_cross[j]
          /\ Arr("sqrt_prices")[j] # pre.sqrt_prices[j]
          /\ tick_to_sqrt_price(Arr("next_ticks_below")[j]) < Arr("sqrt_prices")[j]
          /\ Arr("sqrt_prices")[j] < tick_to_sqrt_price(Arr("next_ticks_above")[j])


(***************************************************************************)
(* Calls of compute_step for an exact-in step of one tier of the int pool: *)
(* token0 in moves the price down to the next tick below, token1 in up to  *)
(* the next tick above.                                                    *)
(***************************************************************************)
StepAmounts == {1, 2, 3, 7, 12, 40, 130}

StepTiers ==
    { [sqrt_gamma |-> g, sqrt_p |-> tick_to_sqrt_price(0) + off, liquidity |-> l] :
      g \in {E5, E5 - 1, E5 - 30}, off \in {0, 1}, l \in {200, 57} }

StepTicks(is_token0) == IF is_token0 THEN {-1, -5, MIN_TICK} ELSE {1, 5, MAX_TICK}

ComputeStepCall(is_token0, amount, t, next_tick) ==
    /\ fc = NotRunning
    /\ fc' = [pc |-> "compute_step", is_token0 |-> is_token0, amount |-> amount,
              sqrt_gamma |-> t.sqrt_gamma, sqrt_p |-> t.sqrt_p, liquidity |-> t.liquidity,
              next_tick |-> next_tick, result |-> <<>>]
    /\ UNCHANGED <<poolVars, sv, mx, ev, sb, ro, tk>>

ComputeStepReturn ==
    /\ fc.pc = "compute_step"
    /\ fc' = [fc EXCEPT !.pc = "step_returned",
                        !.result = compute_step("int", fc.is_token0, TRUE, fc.amount,
                                       fc.sqrt_gamma, fc.sqrt_p, fc.liquidity, fc.next_tick)]
    /\ UNCHANGED <<poolVars, sv, mx, ev, sb, ro, tk>>

InitStep ==
    /\ Idle
    /\ NoMore

NextStep ==
    \/ \E is_token0 \in BOOLEAN, amount \in StepAmounts, t \in StepTiers :
          \E next_tick \in StepTicks(is_token0) : ComputeStepCall(is_token0, amount, t, next_tick)
    \/ ComputeStepReturn

SpecStep == InitStep /\ [][NextStep]_vars

(* the amount that takes the tier of the call to its next tick, and the    *)
(* allocated amount less the fee                                           *)
AmountAtTick(c) ==
    IF c.is_token0
    THEN calc_amt0_from_sqrt_p(c.sqrt_p, tick_to_sqrt_price(c.next_tick), c.liquidity)
    ELSE calc_amt1_from_sqrt_p(c.sqrt_p, tick_to_sqrt_price(c.next_tick), c.liquidity)

FeeStripped(c) == floor_div(c.amount * c.sqrt_gamma ^ 2, E10)

ExactInCrosses(c) ==
    /\ c.result.is_cross
    /\ c.result.sqrt_p_new = tick_to_sqrt_price(c.next_tick)
    /\ c.result.amt_a = ceil_div(AmountAtTick(c) * E10, c.sqrt_gamma ^ 2)
    /\ c.result.fee_amt = c.result.amt_a - AmountAtTick(c)

ExactInStaysInside(c) ==
    /\ ~c.result.is_cross
    /\ c.result.sqrt_p_new = calc_sqrt_p_from_amt(c.is_token0, c.sqrt_p, c.liquidity, FeeStripped(c))
    /\ c.result.amt_a = c.amount
    /\ c.result.fee_amt = c.result.amt_a - FeeStripped(c)

ExactInRejected(c) ==
    /\ ~c.result.allowed
    /\ ~c.result.is_cross
    /\ c.result.sqrt_p_new = c.sqrt_p
    /\ c.result.amt_a = 0
    /\ c.result.amt_b = 0
    /\ c.result.fee_amt = 0

(***************************************************************************)
(* C20 as stated: an exact-in step with allocated amount a crosses the     *)
(* tick iff floor(a*gamma/1e10) >= amountAtTick; crossing, it ends on the  *)
(* tick's price with input ceil(amountAtTick*1e10/gamma); not crossing, it *)
(* ends on the price of the fee-stripped amount with input a; the fee is   *)
(* input less fee-stripped amount and is >= 0.                             *)
(***************************************************************************)
ExactInStepReturnsAllocated ==
    fc.pc = "step_returned" =>
        /\ IF FeeStripped(fc) >= AmountAtTick(fc)
           THEN ExactInCrosses(fc)
           ELSE ExactInStaysInside(fc)
        /\ fc.result.fee_amt >= 0

(***************************************************************************)
(* C20: the same, except that a step that does not cross and whose         *)
(* fee-stripped amount is 0 is rejected: it returns input 0, output 0,     *)
(* fee 0 and the price unchanged, and is not allowed.                      *)
(***************************************************************************)
ExactInStepClampsOrRejects ==
    fc.pc = "step_returned" =>
        /\ IF FeeStripped(fc) >= AmountAtTick(fc)
           THEN ExactInCrosses(fc) /\ fc.result.allowed
           ELSE IF FeeStripped(fc) = 0
           THEN ExactInRejected(fc)
           ELSE ExactInStaysInside(fc) /\ fc.result.allowed
        /\ fc.result.fee_amt >= 0

(* a step clamped at the tick: it takes less than was allocated and        *)
(* charges a fee                                                           *)
ExactInStepClamped ==
    /\ fc.pc = "step_returned"
    /\ fc.result.is_cross
    /\ 0 < AmountAtTick(fc)
    /\ AmountAtTick(fc) < fc.result.amt_a
    /\ fc.result.amt_a < fc.amount


(***************************************************************************)
(* The step of tier i in the iteration the running swap is about to make:  *)
(* the amount the solver allocates to it, the amount to its next tick,     *)
(* whether the step reaches the tick and the input it takes net of fee,    *)
(* before compute_step decides to reject it.                               *)
(***************************************************************************)
step_solution(v, c, A, cl, l) ==
    IF cl.amount_desired > 0
    THEN calc_tier_amounts_in(v, cl.is_token0, cl.amount_desired - l.res_amt_a,
            l.tier_choices, c.sqrt_gammas, A.sqrt_prices, A.liquiditys)
    ELSE calc_tier_amounts_out(v, cl.is_token0, cl.amount_desired - l.res_amt_a,
            l.tier_choices, c.sqrt_gammas, A.sqrt_prices, A.liquiditys)

step_next_tick(cl, A, i) ==
    IF is_token0_in(cl) THEN A.next_ticks_below[i] ELSE A.next_ticks_above[i]

step_amt_tick(v, cl, A, i) ==
    step_amt_same_token(v, cl.is_token0, A.sqrt_prices[i],
        tick_to_sqrt_price(step_next_tick(cl, A, i)), A.liquiditys[i])

step_reaches_tick(v, c, cl, A, i, amount) ==
    IF cl.amount_desired > 0
    THEN quot(v, amount * c.sqrt_gammas[i] ^ 2, E10, FALSE) >= step_amt_tick(v, cl, A, i)
    ELSE amount <= step_amt_tick(v, cl, A, i)

step_fee_stripped(v, c, cl, A, i, amount) ==
    IF step_reaches_tick(v, c, cl, A, i, amount)
    THEN IF cl.amount_desired > 0
         THEN step_amt_tick(v, cl, A, i)
         ELSE step_amt_other(v, cl.is_token0, A.sqrt_prices[i],
                  tick_to_sqrt_price(step_next_tick(cl, A, i)), A.liquiditys[i])
    ELSE IF cl.amount_desired > 0
         THEN quot(v, amount * c.sqrt_gammas[i] ^ 2, E10, FALSE)
         ELSE step_amt_other(v, cl.is_token0, A.sqrt_prices[i],
                  sqrt_p_from_amt(v, cl.is_token0, A.sqrt_prices[i], A.liquiditys[i], amount),
                  A.liquiditys[i])

step_degenerate(v, c, cl, A, i, amount) ==
    /\ ~step_reaches_tick(v, c, cl, A, i, amount)
    /\ step_fee_stripped(v, c, cl, A, i, amount) = 0

TierFrame(A, B, i) ==
    /\ B.sqrt_prices[i] = A.sqrt_prices[i]
    /\ B.liquiditys[i] = A.liquiditys[i]
    /\ B.next_ticks_below[i] = A.next_ticks_below[i]
    /\ B.next_ticks_above[i] = A.next_ticks_above[i]

PoolArraysNext == [a \in Attrs |-> heap'[self'[a]][a]]

StepReturned == pc = "stepping" /\ pc' \in {"stepping", "swap_done"}

(***************************************************************************)
(* Swaps through a pool with a tier of high fee next to a tier of low fee  *)
(* and closely spaced ticks: the high-fee tier is allocated next to        *)
(* nothing while the low-fee tier still has liquidity before its tick.     *)
(***************************************************************************)
StarvedPools ==
    { [liquiditys |-> <<200, l>>,
       sqrt_prices |-> <<tick_to_sqrt_price(-4), tick_to_sqrt_price(t)>>,
       sqrt_gammas |-> <<E5 - 1, E5 - 30>>,
       next_ticks_below |-> <<-5, MIN_TICK>>,
       next_ticks_above |-> <<5, MAX_TICK>>,
       tables |-> <<"sparse", "wide">>] : l \in {57, 120}, t \in {-40, -20} }

StarvedAmounts == {-222, -217, -150, 150, 217, 218, 219, 220, 221, 222}

InitStarved ==
    /\ variant \in {"int", "float"}
    /\ cfg \in StarvedPools
    /\ PoolFresh
    /\ sv = <<>>
    /\ NoMore
    /\ mx = NoSearch
    /\ ev = NoEval

NextStarved ==
    \/ \E is_token0 \in BOOLEAN, amount_desired \in StarvedAmounts :
          Quote(is_token0, amount_desired, <<TRUE, TRUE>>)
    \/ \E is_token0 \in BOOLEAN, amount_desired \in StarvedAmounts :
          Swap(is_token0, amount_desired, <<TRUE, TRUE>>)
    \/ Step
    \/ Return
    \/ NextCall

SpecStarved == InitStarved /\ [][NextStarved]_vars

(***************************************************************************)
(* C21: a tier the solver allocated to is disallowed by its step exactly   *)
(* when the input net of fee is zero and the step does not reach the tick; *)
(* the step then crosses nothing and takes nothing, the tier's sqrt price, *)
(* liquidity and next ticks are those before the step, and the tier is     *)
(* still among the swap's tier choices.                                    *)
(***************************************************************************)
DegenerateStepLeavesTier ==
    [][StepReturned =>
          \A i \in 1..Size :
              step_solution(variant, cfg, PoolArrays, call, loc).mask[i] =>
                  /\ ~loc'.enabled[i] <=>
                        step_degenerate(variant, cfg, call, PoolArrays, i,
                            step_solution(variant, cfg, PoolArrays, call, loc).amts[i])
                  /\ ~loc'.enabled[i] =>
                        /\ ~loc'.is_cross[i]
                        /\ loc'.amts_a[i] = 0
                        /\ loc'.res_amt_a = loc.res_amt_a
                               + SumAll([j \in 1..Size |-> IF j = i THEN 0 ELSE loc'.amts_a[j]])
                        /\ TierFrame(PoolArrays, PoolArraysNext, i)
                        /\ loc'.tier_choices[i]]_vars

(* a swap about to make a further step after a step that disallowed a      *)
(* tier with a positive allocation while another tier traded               *)
TierDisallowedThenStepped ==
    /\ pc = "stepping"
    /\ loc.res_step_count >= 1
    /\ \E i \in 1..Size : loc.tier_choices[i] /\ ~loc.enabled[i] /\ loc.amts[i] > 0
    /\ \E j \in 1..Size : loc.enabled[j] /\ loc.amts_a[j] # 0


(***************************************************************************)
(* Swaps and quotes of the int pools of PoolConfigs through a MuffinPool,  *)
(* whose tick accessor records the requests of each loop iteration.        *)
(***************************************************************************)
InitSentinel ==
    /\ variant = "int"
    /\ cfg \in PoolConfigs
    /\ PoolFresh
    /\ sv = <<>>
    /\ mx = NoSearch
    /\ ev = NoEval
    /\ fc = NotRunning
    /\ sb = NotRunning
    /\ ro = NotRunning
    /\ tk = [pc |-> "pool", cache |-> {}, fetches |-> <<>>, calls |-> <<>>, cached |-> <<>>,
             answers |-> {},
             head |-> 0, below |-> <<>>, above |-> <<>>]

NextSentinel ==
    \/ \E is_token0 \in BOOLEAN, amount_desired \in AmountsDesired, tc \in TierChoices(Size) :
          Quote(is_token0, amount_desired, tc)
    \/ StepCached
    \/ Return

SpecSentinel == InitSentinel /\ [][NextSentinel]_vars

CrossesLastTick(i) ==
    /\ loc'.is_cross[i]
    /\ step_next_tick(call, PoolArrays, i) \in {MIN_TICK, MAX_TICK}

LinksFrame(A, B, i) ==
    /\ B.liquiditys[i] = A.liquiditys[i]
    /\ B.next_ticks_below[i] = A.next_ticks_below[i]
    /\ B.next_ticks_above[i] = A.next_ticks_above[i]

(***************************************************************************)
(* C22: a tier whose step crosses MIN_TICK or MAX_TICK is taken out of the *)
(* swap's tier choices without a request to the tick accessor and with its *)
(* liquidity and next ticks as they were; a tier out of the tier choices   *)
(* stays out, is allocated 0 and keeps its price, liquidity and next ticks *)
(* in every later step.                                                    *)
(***************************************************************************)
LastTickDisablesTier ==
    [][StepReturned =>
          \A i \in 1..Size :
              /\ CrossesLastTick(i) =>
                    /\ ~loc'.tier_choices[i]
                    /\ \A k \in 1..Len(tk'.calls) : tk'.calls[k][1] # i
                    /\ LinksFrame(PoolArrays, PoolArraysNext, i)
              /\ ~loc.tier_choices[i] =>
                    /\ ~loc'.tier_choices[i]
                    /\ loc'.amts[i] = 0
                    /\ loc'.amts_a[i] = 0
                    /\ TierFrame(PoolArrays, PoolArraysNext, i)]_vars

(* a step made with one tier disabled at its last tick, in which the other *)
(* tier crossed a tick the accessor was asked for                          *)
SteppedPastDisabledTier ==
    /\ pc \in {"stepping", "swap_done"}
    /\ loc.res_step_count >= 2
    /\ \E i \in 1..Size :
          /\ call.tier_choices[i]
          /\ ~loc.tier_choices[i]
          /\ loc.amts[i] = 0
          /\ Arr("sqrt_prices")[i] \in {tick_to_sqrt_price(MIN_TICK), tick_to_sqrt_price(MAX_TICK)}
    /\ \E j \in 1..Size : loc.is_cross[j] /\ Len(tk.calls) = 1 /\ tk.calls[1][1] = j


(***************************************************************************)
(* C23: a tier i that crosses a tick t other than MIN_TICK and MAX_TICK,   *)
(* whose record is (delta, below, above): with token0 as input its         *)
(* liquidity falls by delta, its next tick below becomes below and its     *)
(* next tick above t; otherwise its liquidity rises by delta, its next     *)
(* tick above becomes above and its next tick below t.  A tier that does   *)
(* not cross in the step keeps its liquidity and next ticks.               *)
(***************************************************************************)
TierCrossed(A, B, token0_in, i, t, d) ==
    IF token0_in
    THEN /\ B.liquiditys[i] = A.liquiditys[i] - d.liquidity_delta
         /\ B.next_ticks_below[i] = d.next_below
         /\ B.next_ticks_above[i] = t
    ELSE /\ B.liquiditys[i] = A.liquiditys[i] + d.liquidity_delta
         /\ B.next_ticks_above[i] = d.next_above
         /\ B.next_ticks_below[i] = t

CrossingRelinksTier ==
    [][StepReturned =>
          \A i \in 1..Size :
              IF loc'.is_cross[i] /\ ~CrossesLastTick(i)
              THEN TierCrossed(PoolArrays, PoolArraysNext, is_token0_in(call), i,
                       step_next_tick(call, PoolArrays, i),
                       get_tick_data(cfg.tables[i], step_next_tick(call, PoolArrays, i)))
              ELSE ~loc'.is_cross[i] => LinksFrame(PoolArrays, PoolArraysNext, i)]_vars

(* the first step of a swap upwards in which one tier crossed a tick that  *)
(* takes liquidity away and the other tier did not cross                   *)
CrossedUpwardsAlone ==
    /\ pc \in {"stepping", "swap_done"}
    /\ loc.res_step_count = 1
    /\ ~is_token0_in(call)
    /\ \E i \in 1..Size :
          /\ loc.is_cross[i]
          /\ Arr("next_ticks_below")[i] = pre.next_ticks_above[i]
          /\ Arr("next_ticks_above")[i] > Arr("next_ticks_below")[i]
          /\ Arr("liquiditys")[i] < pre.liquiditys[i]
    /\ \E j \in 1..Size : loc.enabled[j] /\ ~loc.is_cross[j] /\ LinksFrame(pre, PoolArrays, j)


(***************************************************************************)
(* Calls of calc_amt0_from_sqrt_p on prices at and next to ticks           *)
(***************************************************************************)
AmountTicks == {MIN_TICK, -20, -5, -1, 0, 1, 5, 20, MAX_TICK}

AmountPrices == {tick_to_sqrt_price(t) + off : t \in AmountTicks, off \in {0, 1}}

AmountLiquiditys == {1, 57, 200}

Amount0Call(sqrt_p0, sqrt_p1, liquidity) ==
    /\ fc = NotRunning
    /\ fc' = [pc |-> "calc_amt0", sqrt_p0 |-> sqrt_p0, sqrt_p1 |-> sqrt_p1,
              liquidity |-> liquidity, result |-> 0]
    /\ UNCHANGED <<poolVars, sv, mx, ev, sb, ro, tk>>

Amount0Return ==
    /\ fc.pc = "calc_amt0"
    /\ fc' = [fc EXCEPT !.pc = "amt0_returned",
                        !.result = calc_amt0_from_sqrt_p(fc.sqrt_p0, fc.sqrt_p1, fc.liquidity)]
    /\ UNCHANGED <<poolVars, sv, mx, ev, sb, ro, tk>>

InitAmount ==
    /\ Idle
    /\ NoMore

NextAmount ==
    \/ \E sqrt_p0 \in AmountPrices, sqrt_p1 \in AmountPrices, liquidity \in AmountLiquiditys :
          Amount0Call(sqrt_p0, sqrt_p1, liquidity)
    \/ Amount0Return

SpecAmount == InitAmount /\ [][NextAmount]_vars

(* the exact amount of the call is Amount0Num / Amount0Den *)
Amount0Num(c) == c.liquidity * abs(c.sqrt_p0 - c.sqrt_p1) * Q72

Amount0Den(c) == c.sqrt_p0 * c.sqrt_p1

(* magnitude m is num/den rounded towards zero, or away from zero *)
RoundedTowardZero(m, num, den) == m * den <= num /\ num < (m + 1) * den

RoundedAwayFromZero(m, num, den) == (m - 1) * den < num /\ num <= m * den

(***************************************************************************)
(* C24 as stated: calc_amt0_from_sqrt_p returns a negative amount rounded  *)
(* away from zero when the price increases, and a non-negative amount      *)
(* rounded toward zero when it does not.                                   *)
(***************************************************************************)
Amount0RoundsOutputAway ==
    fc.pc = "amt0_returned" =>
        IF fc.sqrt_p1 > fc.sqrt_p0
        THEN fc.result < 0 /\ RoundedAwayFromZero(-fc.result, Amount0Num(fc), Amount0Den(fc))
        ELSE fc.result >= 0 /\ RoundedTowardZero(fc.result, Amount0Num(fc), Amount0Den(fc))

(***************************************************************************)
(* C24: calc_amt0_from_sqrt_p returns an amount <= 0 rounded toward zero   *)
(* when the price increases (token0 leaves the pool), and an amount >= 0   *)
(* rounded away from zero when it does not (token0 enters the pool).       *)
(***************************************************************************)
Amount0RoundsOutputDown ==
    fc.pc = "amt0_returned" =>
        IF fc.sqrt_p1 > fc.sqrt_p0
        THEN fc.result <= 0 /\ RoundedTowardZero(-fc.result, Amount0Num(fc), Amount0Den(fc))
        ELSE fc.result >= 0 /\ RoundedAwayFromZero(fc.result, Amount0Num(fc), Amount0Den(fc))

(* a price increase whose exact amount is not a whole number: the amount   *)
(* returned is the smaller magnitude                                       *)
Amount0OutputTruncated ==
    /\ fc.pc = "amt0_returned"
    /\ fc.sqrt_p1 > fc.sqrt_p0
    /\ fc.result < 0
    /\ (-fc.result) * Amount0Den(fc) < Amount0Num(fc)


(***************************************************************************)
(* pool_math's amount functions at the program's own precision, on         *)
(* Python's unbounded int: the products formed, then the division, one     *)
(* digit of the quotient per step.  Prices are sqrt prices of ticks from   *)
(* MIN_TICK to MAX_TICK, liquidity goes up to 2^127.                       *)
(***************************************************************************)
OverflowPrices ==
    { int_of(65539),
      int_make(FALSE, <<8955, 1921, 2996, 7010, 3182>>),
      int_shl(int_of(1), TICK_NFRAC),
      int_make(FALSE, <<1830, 2572, 2911, 2595, 2260, 47>>),
      int_make(FALSE, <<7374, 5801, 850, 6408, 8614, 7006>>),
      int_make(FALSE, <<6765, 9834, 8493, 767, 5073, 3232, 7327, 7539, 2711, 340>>) }

OverflowLiquiditys == {int_of(1000), int_make(FALSE, <<0, 0, 0, 0, 100>>), int_shl(int_of(1), 127)}

amount_call(fn, sqrt_p0, sqrt_p1, liquidity, swapped) ==
    [pc |-> "multiply", fn |-> fn, liquidity |-> liquidity, swapped |-> swapped,
     hi |-> IF int_lt(sqrt_p0, sqrt_p1) THEN sqrt_p1 ELSE sqrt_p0,
     lo |-> IF int_lt(sqrt_p0, sqrt_p1) THEN sqrt_p0 ELSE sqrt_p1,
     products |-> <<>>, num |-> int_of(0), den |-> int_of(1),
     dv |-> [i |-> 0, q |-> <<>>, rem |-> <<>>], result |-> int_of(0)]

AmountCall(fn, sqrt_p0, sqrt_p1, liquidity) ==
    /\ fc = NotRunning
    /\ fc' = amount_call(fn, sqrt_p0, sqrt_p1, liquidity,
                 IF fn = "calc_amt0" THEN int_lt(sqrt_p0, sqrt_p1) ELSE int_lt(sqrt_p1, sqrt_p0))
    /\ UNCHANGED <<poolVars, sv, mx, ev, sb, ro, tk>>

amount_dividend(fn, products, den) ==
    [fn EXCEPT !.pc = "divide", !.products = products, !.num = products[Len(products)],
               !.den = den, !.dv = [i |-> Len(products[Len(products)].mag), q |-> <<>>, rem |-> <<>>]]

amount0_scaled(fn, product, den) ==
    amount_dividend(fn, <<den, product, int_mul(product, int_shl(int_of(1), TICK_NFRAC))>>, den)

AmountMultiply ==
    /\ fc.pc = "multiply"
    /\ fc' = IF fc.fn = "calc_amt0"
             THEN amount0_scaled(fc, int_mul(fc.liquidity, int_sub(fc.hi, fc.lo)),
                      int_mul(fc.hi, fc.lo))
             ELSE amount_dividend(fc, <<int_mul(fc.liquidity, int_sub(fc.hi, fc.lo))>>,
                      int_shl(int_of(1), TICK_NFRAC))
    /\ UNCHANGED <<poolVars, sv, mx, ev, sb, ro, tk>>

amount_div_digit(dv, num, den) == tick_invert_with(dv, den, mag_norm(<<num.mag[dv.i]>> \o dv.rem))

amount_floored(q, rem, round_up) == q

amount_rounded(q, rem, round_up) ==
    IF round_up /\ rem # <<>> THEN int_add(q, int_of(1)) ELSE q

amount_signed(fn, amt) ==
    [fn EXCEPT !.pc = "amount_returned", !.result = IF fn.swapped THEN int_neg(amt) ELSE amt]

AmountDivide ==
    /\ fc.pc = "divide"
    /\ fc' = IF fc.dv.i > 0
             THEN [fc EXCEPT !.dv = amount_div_digit(fc.dv, fc.num, fc.den)]
             ELSE amount_signed(fc, amount_rounded(int_make(FALSE, mag_norm(fc.dv.q)),
                                                   fc.dv.rem, ~fc.swapped))
    /\ UNCHANGED <<poolVars, sv, mx, ev, sb, ro, tk>>

InitOverflow ==
    /\ Idle
    /\ NoMore

NextOverflow ==
    \/ \E fn \in {"calc_amt0", "calc_amt1"}, sqrt_p0 \in OverflowPrices,
          sqrt_p1 \in OverflowPrices, liquidity \in OverflowLiquiditys :
          AmountCall(fn, sqrt_p0, sqrt_p1, liquidity)
    \/ AmountMultiply
    \/ AmountDivide

SpecOverflow == InitOverflow /\ [][NextOverflow]_vars

(* m is num/den rounded down, or rounded up *)
BigRoundedDown(m, num, den) ==
    /\ int_le(int_mul(m, den), num)
    /\ int_lt(num, int_mul(int_add(m, int_of(1)), den))

BigRoundedUp(m, num, den) ==
    /\ int_lt(int_mul(int_sub(m, int_of(1)), den), num)
    /\ int_le(num, int_mul(m, den))

AmountExactlyRounded(c) ==
    IF c.swapped
    THEN BigRoundedDown(int_neg(c.result), c.num, c.den)
    ELSE BigRoundedUp(c.result, c.num, c.den)

(***************************************************************************)
(* C25 as stated: neither amount function forms a product of 2^256 or      *)
(* more, and each returns the exactly rounded quotient.                    *)
(***************************************************************************)
AmountProductsBelow2To256 ==
    fc.pc = "amount_returned" =>
        /\ \A k \in 1..Len(fc.products) : int_le(fc.products[k], UINT256_MAX)
        /\ AmountExactlyRounded(fc)

(***************************************************************************)
(* C25: both amount functions form the whole product, of whatever size,    *)
(* and return the exactly rounded quotient of it: liquidity * (hi - lo) *  *)
(* 2^72 over hi * lo for token0, liquidity * (hi - lo) over 2^72 for       *)
(* token1, rounded down for an output and up for an input.                 *)
(***************************************************************************)
AmountOfWholeProduct ==
    fc.pc = "amount_returned" =>
        /\ fc.num = IF fc.fn = "calc_amt0"
                    THEN int_mul(int_mul(fc.liquidity, int_sub(fc.hi, fc.lo)),
                                 int_shl(int_of(1), TICK_NFRAC))
                    ELSE int_mul(fc.liquidity, int_sub(fc.hi, fc.lo))
        /\ fc.products[Len(fc.products)] = fc.num
        /\ AmountExactlyRounded(fc)

(* an amount of token0 returned from a product of 2^256 or more *)
AmountFromProductOver2To256 ==
    /\ fc.pc = "amount_returned"
    /\ fc.fn = "calc_amt0"
    /\ ~int_le(fc.num, UINT256_MAX)
    /\ int_lt(int_of(0), fc.result)
    /\ fc.dv.rem # <<>>


(***************************************************************************)
(* arbitrage.send_arb.  ro is the running call: the settings' NETWORK, the *)
(* values the node and the relay answered with, the target blocks a bundle *)
(* was sent for and the responses waited for so far.                       *)
(***************************************************************************)
Networks == {"mainnet", "goerli", "rinkeby"}

(* settings.py: USE_FLASH_BOT of each network *)
USE_FLASH_BOT(network) == network # "rinkeby"

BRIBE_PERCENTAGE_POST_BASE_FEE == 80

SUS_GAS == 1000000

SendArbNets == {int_of(2000000), scaled(1, 15)}

SendArbGas == {150000, SUS_GAS, SUS_GAS + 1}

SendArbLatest == {[number |-> 100, baseFeePerGas |-> scaled(5, 9)], [number |-> 100]}

SendArbPriorityFees == {scaled(1, 9), scaled(1, 10), scaled(5, 8)}

(* mainnet's retry count on every network *)
retry_times_goerli(network) == 5

(* `retry_times = 5 if NETWORK == 'goerli' else 2` *)
retry_times(network) == IF network = "goerli" THEN 5 ELSE 2

int_min(x, y) == IF int_lt(y, x) THEN y ELSE x

send_arb_call(network, token_in, amt_net) ==
    [pc |-> "estimate", network |-> network, token_in |-> token_in, amt_net |-> amt_net,
     gas |-> 0, latest |-> 0, profit_per_gas |-> int_of(0), mpf |-> int_of(0),
     max_priority_fee |-> int_of(0), tx_mpf |-> int_of(0), simulation |-> [block |-> 0],
     submitted |-> <<>>, waited |-> <<>>, mined |-> 0, raised |-> "none"]

(* lines 28-87: calldata, and the direct send without a bundle *)
SendArbBegin(network, known_pair, token_in, amt_net) ==
    /\ ro = NotRunning
    /\ ro' = IF ~known_pair
             THEN [send_arb_call(network, token_in, amt_net) EXCEPT
                       !.pc = "raised", !.raised = "NotImplementedError"]
             ELSE IF network = "rinkeby" \/ ~USE_FLASH_BOT(network)
             THEN [send_arb_call(network, token_in, amt_net) EXCEPT !.pc = "sent_directly"]
             ELSE send_arb_call(network, token_in, amt_net)
    /\ UNCHANGED <<poolVars, sv, mx, ev, fc, sb, tk>>

(* lines 92-99; gas = 0 stands for estimateGas raising *)
EstimateGas(gas) ==
    /\ ro.pc = "estimate"
    /\ ro' = IF gas = 0 \/ gas > SUS_GAS
             THEN [ro EXCEPT !.pc = "raised", !.raised = "Skip"]
             ELSE [ro EXCEPT !.pc = "fee", !.gas = gas]
    /\ UNCHANGED <<poolVars, sv, mx, ev, fc, sb, tk>>

(* lines 108-113 *)
amt_net_eth(token_in, amt_net) ==
    IF token_in.address = "ETH_ADDRESS" THEN amt_net
    ELSE int_floordiv(int_mul(amt_net, scaled(1, 18)), int_mul(int_of(1000), scaled(1, 6)))

(* lines 115-119 *)
max_priority_fee_per_gas(profit_per_gas, base_fee) ==
    int_floordiv(int_mul(int_sub(profit_per_gas, base_fee),
                         int_of(BRIBE_PERCENTAGE_POST_BASE_FEE)), int_of(100))

priority_fee_checked(c, latest, profit_per_gas, mpf, max_priority_fee) ==
    IF int_le(mpf, int_of(0)) \/ int_le(mpf, max_priority_fee)
    THEN [c EXCEPT !.pc = "raised", !.raised = "Skip"]
    ELSE [c EXCEPT !.pc = "simulate", !.latest = latest.number, !.profit_per_gas = profit_per_gas,
                   !.mpf = mpf, !.max_priority_fee = max_priority_fee,
                   !.tx_mpf = IF c.network = "goerli"
                              THEN int_min(mpf, int_floordiv(int_mul(max_priority_fee, int_of(200)),
                                                             int_of(100)))
                              ELSE mpf]

priority_fee_of(c, latest, profit_per_gas, max_priority_fee) ==
    priority_fee_checked(c, latest, profit_per_gas,
        max_priority_fee_per_gas(profit_per_gas, latest.baseFeePerGas), max_priority_fee)

(* lines 104-129 *)
PriorityFee(latest, max_priority_fee) ==
    /\ ro.pc = "fee"
    /\ ro' = IF "baseFeePerGas" \notin DOMAIN latest
             THEN [ro EXCEPT !.pc = "raised", !.raised = "AssertionError"]
             ELSE IF ro.token_in.address \notin {"ETH_ADDRESS", "USDC_ADDRESS"}
             THEN [ro EXCEPT !.pc = "raised", !.raised = "NotImplementedError"]
             ELSE priority_fee_of(ro, latest,
                      int_floordiv(amt_net_eth(ro.token_in, ro.amt_net), int_of(ro.gas)),
                      max_priority_fee)
    /\ UNCHANGED <<poolVars, sv, mx, ev, fc, sb, tk>>

(* lines 134-158: the transaction is built and the bundle simulated for the next block *)
Simulate(ok) ==
    /\ ro.pc = "simulate"
    /\ ro' = IF ok THEN [ro EXCEPT !.pc = "send", !.simulation = [block |-> ro.latest + 1]]
             ELSE [ro EXCEPT !.pc = "raised", !.raised = "Skip"]
    /\ UNCHANGED <<poolVars, sv, mx, ev, fc, sb, tk>>

(* lines 160-164: one send_bundle of the list comprehension *)
SendBundle(ok) ==
    /\ ro.pc = "send"
    /\ ro' = IF Len(ro.submitted) >= retry_times(ro.network) THEN [ro EXCEPT !.pc = "wait"]
             ELSE IF ok
             THEN [ro EXCEPT !.submitted = Append(@, (ro.latest + 1) + Len(ro.submitted))]
             ELSE [ro EXCEPT !.pc = "raised", !.raised = "Exception"]
    /\ UNCHANGED <<poolVars, sv, mx, ev, fc, sb, tk>>

(* lines 166-182: one iteration of `for i, resp in enumerate(responses)` *)
WaitBundle(outcome) ==
    /\ ro.pc = "wait"
    /\ ro' = IF Len(ro.waited) >= Len(ro.submitted) THEN [ro EXCEPT !.pc = "returned"]
             ELSE IF outcome = "mined"
             THEN [ro EXCEPT !.pc = "returned", !.mined = ro.submitted[Len(ro.waited) + 1],
                             !.waited = Append(@, ro.submitted[Len(ro.waited) + 1])]
             ELSE IF outcome = "stats_raised" /\ Len(ro.waited) = 0
             THEN [ro EXCEPT !.pc = "raised", !.raised = "Exception",
                             !.waited = Append(@, ro.submitted[Len(ro.waited) + 1])]
             ELSE [ro EXCEPT !.waited = Append(@, ro.submitted[Len(ro.waited) + 1])]
    /\ UNCHANGED <<poolVars, sv, mx, ev, fc, sb, tk>>

InitSendArb ==
    /\ Idle
    /\ NoMore

NextSendArb ==
    \/ \E network \in Networks, known_pair \in BOOLEAN, token_in \in {ETH, USDC, WBTC},
          amt_net \in SendArbNets : SendArbBegin(network, known_pair, token_in, amt_net)
    \/ \E gas \in SendArbGas \cup {0} : EstimateGas(gas)
    \/ \E latest \in SendArbLatest, max_priority_fee \in SendArbPriorityFees :
          PriorityFee(latest, max_priority_fee)
    \/ \E ok \in BOOLEAN : Simulate(ok)
    \/ \E ok \in BOOLEAN : SendBundle(ok)
    \/ \E outcome \in {"mined", "not_found", "stats_raised"} : WaitBundle(outcome)

SpecSendArb == InitSendArb /\ [][NextSendArb]_vars

InSendArb == ro # NotRunning /\ "submitted" \in DOMAIN ro

(***************************************************************************)
(* C26: a bundle is sent only after estimateGas answered, the priority fee *)
(* was positive and above the node's, and the simulation succeeded; the    *)
(* target blocks are latest + 1, latest + 2, ... and never more than 2 (5  *)
(* on goerli); responses are waited for in that order, only once all are   *)
(* sent, and none after the one whose bundle was mined.                    *)
(***************************************************************************)
BundleSentAfterChecks ==
    /\ [](InSendArb /\ ro.submitted # <<>> =>
             /\ ro.gas > 0
             /\ int_lt(int_of(0), ro.mpf) /\ int_lt(ro.max_priority_fee, ro.mpf)
             /\ ro.simulation.block = ro.latest + 1)
    /\ [](InSendArb =>
             /\ Len(ro.submitted) <= (IF ro.network = "goerli" THEN 5 ELSE 2)
             /\ \A k \in 1..Len(ro.submitted) : ro.submitted[k] = ro.latest + k
             /\ Len(ro.waited) <= Len(ro.submitted)
             /\ \A k \in 1..Len(ro.waited) : ro.waited[k] = ro.submitted[k]
             /\ ro.waited # <<>> => Len(ro.submitted) = (IF ro.network = "goerli" THEN 5 ELSE 2)
             /\ ro.mined # 0 => ro.pc = "returned" /\ ro.mined = ro.waited[Len(ro.waited)])
    /\ [][InSendArb /\ ro.mined # 0 => UNCHANGED ro]_vars

(* on goerli the bundle was mined in the fourth of its five target blocks *)
BundleMinedInLaterBlock ==
    /\ InSendArb
    /\ ro.network = "goerli"
    /\ ro.pc = "returned"
    /\ Len(ro.submitted) = 5
    /\ ro.mined = ro.latest + 4
    /\ Len(ro.waited) = 4


(***************************************************************************)
(* Swaps and quotes of the int pool alone, on the pools of Spec and of     *)
(* SpecStarved, with the loop of a running swap always taking its next     *)
(* iteration (a Python loop does not pause).                               *)
(***************************************************************************)
InitLoop ==
    /\ variant = "int"
    /\ cfg \in PoolConfigs \cup StarvedPools
    /\ PoolFresh
    /\ sv = <<>>
    /\ NoMore
    /\ mx = NoSearch
    /\ ev = NoEval

LoopAmounts == (AmountsDesired \cup StarvedAmounts) \ {0}

LoopTierChoices == {tc \in TierChoices(Size) : AnyTrue(tc)}

NextLoop ==
    \/ \E is_token0 \in BOOLEAN, amount_desired \in LoopAmounts, tc \in LoopTierChoices :
          Quote(is_token0, amount_desired, tc)
    \/ \E is_token0 \in BOOLEAN, amount_desired \in LoopAmounts, tc \in LoopTierChoices :
          Swap(is_token0, amount_desired, tc)
    \/ Step
    \/ Return
    \/ NextCall

(* Step is enabled exactly while pc = "stepping": this is WF_vars(Step) *)
LoopGoesOn == []<>(pc # "stepping") \/ []<><<Step>>_vars

SpecLoop == InitLoop /\ [][NextLoop]_vars /\ LoopGoesOn

(* tier i's next tick in the direction of the swap moved on *)
TickAdvanced(A, B, i) ==
    IF is_token0_in(call)
    THEN B.next_ticks_below[i] < A.next_ticks_below[i]
    ELSE B.next_ticks_above[i] > A.next_ticks_above[i]

(***************************************************************************)
(* C27: an int swap of a non-zero amount with a tier enabled leaves its    *)
(* loop.  Every iteration after which the loop goes on has brought the     *)
(* consumed amount closer to the amount desired, or moved a tier to its    *)
(* next tick, or disabled a tier at its last tick; none leaves the         *)
(* remaining amount, the ticks and the tier choices all as they were.      *)
(***************************************************************************)
IntSwapLeavesLoop ==
    /\ (pc = "stepping") ~> (pc # "stepping")
    /\ [][pc = "stepping" /\ pc' = "stepping" =>
             \/ abs(call.amount_desired - loc'.res_amt_a) < abs(call.amount_desired - loc.res_amt_a)
             \/ \E i \in 1..Size : TickAdvanced(PoolArrays, PoolArraysNext, i)
             \/ \E i \in 1..Size : loc.tier_choices[i] /\ ~loc'.tier_choices[i]]_vars

(* the loop goes on after an iteration that consumed nothing, with more    *)
(* than the tolerance still to consume                                     *)
StepConsumedNothing ==
    /\ pc = "stepping"
    /\ loc.res_step_count >= 1
    /\ SumAll(loc.amts_a) = 0
    /\ abs(call.amount_desired - loc.res_amt_a) > SWAP_AMOUNT_TOLERANCE

(* what was left to consume when the last iteration began *)
RemainingBefore == (call.amount_desired - loc.res_amt_a) + SumAll(loc.amts_a)

Between(lo, x, hi) == lo <= x /\ x <= hi

(***************************************************************************)
(* C28: in a swap of the int pool the amount consumed so far lies between  *)
(* 0 and the amount desired (0 <= res_amt_a <= amount_desired exact-in,    *)
(* amount_desired <= res_amt_a <= 0 exact-out); in every iteration each    *)
(* tier's amount lies between 0 and what the solver allocated to it, and   *)
(* the allocations together lie between 0 and the amount left.             *)
(***************************************************************************)
ConsumedWithinDesired ==
    (variant = "int" /\ pc \in {"stepping", "swap_done"}) =>
        /\ Between(0, loc.res_amt_a, call.amount_desired)
              \/ Between(call.amount_desired, loc.res_amt_a, 0)
        /\ loc.res_step_count >= 1 =>
              /\ \A i \in 1..Size : \/ Between(0, loc.amts_a[i], loc.amts[i])
                                     \/ Between(loc.amts[i], loc.amts_a[i], 0)
              /\ \/ Between(0, SumAll(loc.amts), RemainingBefore)
                 \/ Between(RemainingBefore, SumAll(loc.amts), 0)

(* an exact-in swap ended on an iteration in which one tier took less than *)
(* its allocation and the other all of it                                  *)
ConsumedLessThanAllocated ==
    /\ variant = "int"
    /\ pc = "swap_done"
    /\ call.amount_desired > 0
    /\ loc.res_step_count >= 2
    /\ \E i \in 1..Size : 0 < loc.amts_a[i] /\ loc.amts_a[i] < loc.amts[i]
    /\ \E i \in 1..Size : 0 < loc.amts_a[i] /\ loc.amts_a[i] = loc.amts[i]

(***************************************************************************)
(* The array the caller passed as tier_choices, as it is now: the entries  *)
(* it was passed with, unless swap works on that very array.               *)
(***************************************************************************)
caller_tier_choices == IF loc.copied THEN call.tier_choices ELSE loc.tier_choices

(* the caller quotes again, passing the array of its previous quote *)
QuoteAgain(is_token0, amount_desired) ==
    /\ pc = "returned"
    /\ call.mode = "quote"
    /\ last' = [mode |-> "again",
                tier_choices |-> IF last = NoLast THEN call.tier_choices ELSE last.tier_choices]
    /\ saved' = self
    /\ heap' = [heap EXCEPT !["copy"] = [a \in Attrs |-> Arr(a)]]
    /\ self' = quote_copy(self)
    /\ call' = [mode |-> "quote", is_token0 |-> is_token0,
                amount_desired |-> amount_desired, tier_choices |-> caller_tier_choices]
    /\ loc' = swap_locals(caller_tier_choices)
    /\ pre' = PoolArrays
    /\ pc' = "stepping"
    /\ UNCHANGED <<variant, cfg, err, sv, mx, ev, fc, sb, ro, tk>>

RequoteAmounts == {-5000, -217, 130, 217, 5000}

NextRequote ==
    \/ \E is_token0 \in BOOLEAN, amount_desired \in RequoteAmounts, tc \in TierChoices(Size) :
          Quote(is_token0, amount_desired, tc)
    \/ \E is_token0 \in BOOLEAN, amount_desired \in RequoteAmounts, tc \in TierChoices(Size) :
          Swap(is_token0, amount_desired, tc)
    \/ Step
    \/ Return
    \/ \E is_token0 \in BOOLEAN, amount_desired \in RequoteAmounts :
          QuoteAgain(is_token0, amount_desired)

SpecRequote == InitLoop /\ [][NextRequote]_vars

(***************************************************************************)
(* C29: while swap or quote runs and after it returned or raised, the      *)
(* caller's tier_choices array has the entries it was passed with,         *)
(* whatever became of swap's own tier choices; every further quote the     *)
(* caller makes with the array starts from the entries of the first.       *)
(***************************************************************************)
CallerTierChoicesKept ==
    /\ pc \in {"stepping", "swap_done", "returned", "error"} =>
          caller_tier_choices = call.tier_choices
    /\ last # NoLast => /\ call.tier_choices = last.tier_choices
                        /\ loc.res_step_count = 0 => loc.tier_choices = last.tier_choices

(* a later quote with the same array returned after two or more           *)
(* iterations with one of its two tiers disabled at its last tick          *)
RequotedAfterTierDisabled ==
    /\ pc = "returned"
    /\ last # NoLast
    /\ loc.res_step_count >= 2
    /\ Size = 2
    /\ \E i \in 1..Size : call.tier_choices[i] /\ ~loc.tier_choices[i]
    /\ \E i \in 1..Size : loc.tier_choices[i]

(***************************************************************************)
(* maximize on parabolas that are positive on a wide range, on a narrow    *)
(* range around the peak, or nowhere, from guesses below, at and above the *)
(* peak; the loop of a running call always takes its next iteration.       *)
(***************************************************************************)
BracketGuesses ==
    {int_of(n) : n \in {2, 3, 5, 7, 10, 11, 1000, 65537, 100000, 499999, 500000, 500001,
                        1000000}} \cup {scaled(1, 18)}

BracketOffsets ==
    {int_of(-5), int_of(1), int_of(250000), int_mul(parabola_peak, parabola_peak),
     scaled(1, 12)}

InitBracket ==
    /\ NoPool
    /\ sv = <<>>
    /\ NoMore
    /\ \E x1 \in BracketGuesses, offset \in BracketOffsets :
          mx = maximize_call([kind |-> "parabola", offset |-> offset],
                             gen_guess(int_of(1), x1))
    /\ ev = NoEval

NextBracket == MaximizeStep

(* MaximizeStep is enabled exactly while mx.pc = "loop": this is WF_vars(MaximizeStep) *)
SearchGoesOn == []<>(mx.pc # "loop") \/ []<><<MaximizeStep>>_vars

SpecBracket == InitBracket /\ [][NextBracket]_vars /\ SearchGoesOn

bracket_width(xs) == int_sub(xs[Len(xs)], xs[1])

(* the search after its next iteration *)
SearchAfterIteration == maximize_iteration(mx, parabola(mx.fn.offset, mx.bounds[Len(mx.bounds)]))

(* the step enters a recursion: the call now runs over a new list *)
RecursionEntered == mx.pc = "loop" /\ mx'.pc = "loop" /\ mx'.gen.xs # mx.gen.xs

(***************************************************************************)
(* C30: maximize(f, gen_guess(1, x1), 1, 1e-5, 1) on a strictly concave f  *)
(* returns, with a value between the first and the last of its bounds; it  *)
(* never asks a list iterator for a sixth value; no iteration leaves the   *)
(* search as it was; each recursion runs over                              *)
(* five points from the first to the last bound of the call that made it,  *)
(* a strictly narrower range than that call's own list.                    *)
(***************************************************************************)
MaximizeReturnsInsideBracket ==
    /\ (mx.pc = "loop") ~> (mx.pc = "returned")
    /\ [](mx.pc # "StopIteration")
    /\ [](mx.pc = "loop" => SearchAfterIteration # mx)
    /\ [](mx.pc = "returned" => /\ int_le(mx.bounds[1], mx.result)
                                /\ int_le(mx.result, mx.bounds[Len(mx.bounds)]))
    /\ [][RecursionEntered =>
             /\ Len(mx'.gen.xs) = 5
             /\ mx'.gen.xs[1] = mx.bounds[1]
             /\ mx'.gen.xs[5] = mx.bounds[Len(mx.bounds)]
             /\ mx.gen.xs # <<>> =>
                   int_lt(bracket_width(mx'.gen.xs), bracket_width(mx.gen.xs))]_vars

(* a call returned from a recursion that had taken all five values of its list *)
ReturnedAfterFifthValue ==
    /\ mx.pc = "returned"
    /\ mx.gen.kind = "list"
    /\ mx.gen.pending = <<>>
    /\ mx.bounds[Len(mx.bounds)] = mx.gen.xs[5]
====
